---------------------------- MODULE Spec2Model ----------------------------
(***************************************************************************)
(* Model of lib/upipe-framers/upipe_mpgv_framer.c: the framer that builds  *)
(* one buffer per coded picture out of chunks of an ISO 13818-2 video     *)
(* elementary stream.                                                      *)
(*                                                                         *)
(* Bytes are the integers 0..255.  The 32-bit scan context is kept as the  *)
(* tuple of its four bytes, most significant first, so that no value       *)
(* leaves the integer range of the model checker.  The sentinel UINT64_MAX *)
(* of the timestamps is kept apart from every timestamp the streams use.   *)
(***************************************************************************)
EXTENDS Integers, Sequences, FiniteSets, TLC

(***************************************************************************)
(* Program constants                                                       *)
(***************************************************************************)
MP2VPIC_START_CODE == 0
MP2VPIC_LAST_CODE == 175
MP2VUSR_START_CODE == 178
MP2VSEQ_START_CODE == 179
MP2VX_START_CODE == 181
MP2VEND_START_CODE == 183
MP2VGOP_START_CODE == 184

MP2VSEQ_HEADER_SIZE == 12
MP2VSEQX_HEADER_SIZE == 10
MP2VSEQDX_HEADER_SIZE == 9
MP2VSEQDX_COLOR_SIZE == 3
MP2VGOP_HEADER_SIZE == 8
MP2VPIC_HEADER_SIZE == 8
MP2VPICX_HEADER_SIZE == 9

MP2VX_ID_SEQX == 1
MP2VX_ID_SEQDX == 2
MP2VX_ID_PICX == 8

MP2VPIC_TYPE_I == 1
MP2VPIC_TYPE_P == 2
MP2VPIC_TYPE_B == 3

MP2VSEQX_LEVEL_MASK == 15
MP2VSEQX_LEVEL_LOW == 10
MP2VSEQX_LEVEL_MAIN == 8
MP2VSEQX_LEVEL_HIGH1440 == 6
MP2VSEQX_LEVEL_HIGH == 4
MP2VSEQX_CHROMA_420 == 1
MP2VSEQX_CHROMA_422 == 2
MP2VSEQX_CHROMA_444 == 3
MP2VSEQ_ASPECT_SQUARE == 1
MP2VSEQ_ASPECT_4_3 == 2
MP2VSEQ_ASPECT_16_9 == 3
MP2VSEQ_ASPECT_2_21 == 4
MP2VPICX_TOP_FIELD == 1
MP2VPICX_BOTTOM_FIELD == 2
MP2VPICX_FRAME_PICTURE == 3

UCLOCK_FREQ == 27000000

\* sentinel of an unset 64-bit timestamp (2^64-1 in the program)
UINT64_MAX == -1
\* the scan context 0xffffffff
UINT32_MAX == <<255, 255, 255, 255>>
\* a null pointer (struct ubuf *, struct uref *)
NULL == <<>>

(***************************************************************************)
(* Generic helpers                                                         *)
(***************************************************************************)
Min(a, b) == IF a < b THEN a ELSE b

Max(a, b) == IF a < b THEN b ELSE a

BitSet(byte, mask) == (byte \div mask) % 2 = 1

RECURSIVE Concat(_)
Concat(ss) == IF ss = <<>> THEN <<>> ELSE Head(ss) \o Concat(Tail(ss))

\* bytes [offset, offset+size) of a byte sequence (0-based offset)
Slice(bytes, offset, size) == SubSeq(bytes, offset + 1, offset + size)

(***************************************************************************)
(* frame_rate_from_code: the table translating frame_rate_code             *)
(***************************************************************************)
frame_rate_from_code(code) ==
    CASE code = 1 -> [num |-> 24000, den |-> 1001]
      [] code = 2 -> [num |-> 24, den |-> 1]
      [] code = 3 -> [num |-> 25, den |-> 1]
      [] code = 4 -> [num |-> 30000, den |-> 1001]
      [] code = 5 -> [num |-> 30, den |-> 1]
      [] code = 6 -> [num |-> 50, den |-> 1]
      [] code = 7 -> [num |-> 60000, den |-> 1001]
      [] code = 8 -> [num |-> 60, den |-> 1]
      [] code = 9 -> [num |-> 15000, den |-> 1001]
      [] code = 10 -> [num |-> 5000, den |-> 1001]
      [] code = 11 -> [num |-> 10000, den |-> 1001]
      [] code = 12 -> [num |-> 12000, den |-> 1001]
      [] code = 13 -> [num |-> 15000, den |-> 1001]
      [] OTHER -> [num |-> 0, den |-> 0]

RECURSIVE Gcd(_, _)
Gcd(a, b) == IF b = 0 THEN a ELSE Gcd(b, a % b)

urational_simplify(r) ==
    LET g == Gcd(r.num, r.den)
    IN  IF g = 0 THEN r ELSE [num |-> r.num \div g, den |-> r.den \div g]

(***************************************************************************)
(* The start code scanner (upipe_framers_mpeg_scan).  It shifts the bytes  *)
(* of the buffer into the context one by one and stops right after the     *)
(* byte that makes the context 00 00 01 xx, or at the end of the buffer.   *)
(* The result is the number of bytes walked and the new context.           *)
(***************************************************************************)
ContextShift(ctx, byte) == <<ctx[2], ctx[3], ctx[4], byte>>

\* (scan_context & 0xffffff00) == 0x100
ContextIsStartCode(ctx) == ctx[1] = 0 /\ ctx[2] = 0 /\ ctx[3] = 1

RECURSIVE MpegScanFrom(_, _, _)
MpegScanFrom(buffer, i, ctx) ==
    IF i > Len(buffer) THEN [p |-> Len(buffer), scan_context |-> ctx]
    ELSE LET c == ContextShift(ctx, buffer[i])
         IN  IF ContextIsStartCode(c) THEN [p |-> i, scan_context |-> c]
             ELSE MpegScanFrom(buffer, i + 1, c)

upipe_framers_mpeg_scan(buffer, ctx) == MpegScanFrom(buffer, 1, ctx)


(***************************************************************************)
(* The private context of the pipe (struct upipe_mpgvf) is one record.     *)
(* Its field urefs is the octet stream: the head is next_uref, the rest    *)
(* the urefs received after it; every uref keeps its own bytes (one        *)
(* segment of the chained block) and its attributes.  Two more fields log  *)
(* what leaves the pipe: output, the urefs given to the output pipe, and   *)
(* uprobe, the events thrown.  flow_defs lists the flow definitions stored *)
(* for the output and sequences the sequence triples handled, each with    *)
(* whether it was parsed.  A division by zero is undefined: sigfpe says    *)
(* whether the build stops the process there (trapped is then set) or goes *)
(* on with the quotient 0.  working says that the process is inside the    *)
(* loop of upipe_mpgvf_work; only the specification that takes the loop    *)
(* one iteration at a time sets it.                                        *)
(*                                                                         *)
(* A uref holds: ubuf (its bytes), pos (the index in the whole input of    *)
(* its first byte, for the ordering properties), the six timestamps,       *)
(* systime_rap, and the discontinuity and error flags.                     *)
(***************************************************************************)
\* the PTS is left pending for the next frame
KeepPts(s) == s

upipe_mpgvf_flush_pts(s) ==
    [s EXCEPT !.next_frame_pts_orig = UINT64_MAX,
              !.next_frame_pts = UINT64_MAX,
              !.next_frame_pts_sys = UINT64_MAX]

upipe_mpgvf_flush_dts(s) ==
    [s EXCEPT !.next_frame_dts_orig = UINT64_MAX,
              !.next_frame_dts = UINT64_MAX,
              !.next_frame_dts_sys = UINT64_MAX]

upipe_mpgvf_alloc ==
    [ systime_rap |-> UINT64_MAX,
      systime_rap_ref |-> UINT64_MAX,
      last_picture_number |-> 0,
      last_temporal_reference |-> -1,
      got_discontinuity |-> FALSE,
      insert_sequence |-> FALSE,
      sequence_header |-> NULL,
      sequence_ext |-> NULL,
      sequence_display |-> NULL,
      progressive_sequence |-> FALSE,
      fps |-> [num |-> 0, den |-> 0],
      closed_gop |-> FALSE,
      sar |-> [num |-> 0, den |-> 0],
      urefs |-> <<>>,
      scan_context |-> UINT32_MAX,
      next_frame_size |-> 0,
      next_frame_sequence |-> FALSE,
      next_frame_sequence_ext_offset |-> -1,
      next_frame_sequence_display_offset |-> -1,
      next_frame_gop_offset |-> -1,
      next_frame_offset |-> -1,
      next_frame_ext_offset |-> -1,
      next_frame_slice |-> FALSE,
      next_frame_pts_orig |-> UINT64_MAX,
      next_frame_pts |-> UINT64_MAX,
      next_frame_pts_sys |-> UINT64_MAX,
      next_frame_dts_orig |-> UINT64_MAX,
      next_frame_dts |-> UINT64_MAX,
      next_frame_dts_sys |-> UINT64_MAX,
      acquired |-> FALSE,
      flow_def |-> NULL,
      trapped |-> FALSE,
      sigfpe |-> TRUE,
      working |-> FALSE,
      output |-> <<>>,
      flow_defs |-> <<>>,
      sequences |-> <<>>,
      uprobe |-> <<"ready">> ]

upipe_throw(s, event) == [s EXCEPT !.uprobe = Append(@, event)]

(***************************************************************************)
(* UPIPE_HELPER_SYNC                                                       *)
(***************************************************************************)
upipe_mpgvf_sync_acquired(s) ==
    IF s.acquired THEN s
    ELSE upipe_throw([s EXCEPT !.acquired = TRUE], "sync_acquired")

upipe_mpgvf_sync_lost(s) ==
    IF s.acquired
    THEN upipe_throw([s EXCEPT !.acquired = FALSE], "sync_lost")
    ELSE s

(***************************************************************************)
(* Block accessors over the chained segments of next_uref                  *)
(***************************************************************************)
RECURSIVE uref_block_size(_)
uref_block_size(urefs) ==
    IF urefs = <<>> THEN 0
    ELSE Len(Head(urefs).ubuf) + uref_block_size(Tail(urefs))

RECURSIVE StreamBytes(_)
StreamBytes(urefs) ==
    IF urefs = <<>> THEN <<>>
    ELSE Head(urefs).ubuf \o StreamBytes(Tail(urefs))

\* uref_block_read: the contiguous run starting at offset, up to the end of
\* the segment that holds it; NULL when offset is not inside the block
RECURSIVE uref_block_read(_, _)
uref_block_read(urefs, offset) ==
    IF urefs = <<>> THEN NULL
    ELSE LET n == Len(Head(urefs).ubuf)
         IN  IF offset < n THEN Slice(Head(urefs).ubuf, offset, n - offset)
             ELSE uref_block_read(Tail(urefs), offset - n)

\* uref_block_extract / uref_block_peek: size bytes at offset, NULL when the
\* region is not inside the buffer
block_peek(bytes, offset, size) ==
    IF offset + size <= Len(bytes) THEN Slice(bytes, offset, size) ELSE NULL

(***************************************************************************)
(* upipe_mpgvf_promote_uref: called whenever a uref becomes next_uref      *)
(***************************************************************************)
PromoteChannel(pending, ts) == IF ts # UINT64_MAX THEN ts ELSE pending

upipe_mpgvf_promote_uref(s) ==
    LET u == Head(s.urefs)
    IN  [s EXCEPT
          !.next_frame_pts_orig = PromoteChannel(@, u.pts_orig),
          !.next_frame_pts = PromoteChannel(@, u.pts),
          !.next_frame_pts_sys = PromoteChannel(@, u.pts_sys),
          !.next_frame_dts_orig = PromoteChannel(@, u.dts_orig),
          !.next_frame_dts = PromoteChannel(@, u.dts),
          !.next_frame_dts_sys = PromoteChannel(@, u.dts_sys)]

(***************************************************************************)
(* UPIPE_HELPER_UREF_STREAM                                                *)
(***************************************************************************)
upipe_mpgvf_init_uref_stream(s) == [s EXCEPT !.urefs = <<>>]

upipe_mpgvf_clean_uref_stream(s) == [s EXCEPT !.urefs = <<>>]

upipe_mpgvf_append_uref_stream(s, uref) ==
    IF s.urefs = <<>>
    THEN upipe_mpgvf_promote_uref([s EXCEPT !.urefs = <<uref>>])
    ELSE [s EXCEPT !.urefs = Append(@, uref)]

\* drops the first consumed bytes; a uref whose bytes are all consumed
\* leaves the head slot and the next one is promoted with its attributes
RECURSIVE upipe_mpgvf_consume_uref_stream(_, _)
upipe_mpgvf_consume_uref_stream(s, consumed) ==
    IF s.urefs = <<>> THEN s
    ELSE LET n == Len(Head(s.urefs).ubuf)
         IN  IF consumed >= n
             THEN IF Len(s.urefs) = 1
                  THEN [s EXCEPT !.urefs = <<>>]
                  ELSE upipe_mpgvf_consume_uref_stream(
                         upipe_mpgvf_promote_uref(
                           [s EXCEPT !.urefs = Tail(@)]),
                         consumed - n)
             ELSE [s EXCEPT
                    !.urefs[1].ubuf = Slice(@, consumed, n - consumed),
                    !.urefs[1].pos = @ + consumed]

\* the picture uref spliced from next_uref: the attributes of next_uref and
\* the first extracted bytes; segs lists the input ranges it is made of
uref_block_splice(urefs, extracted) ==
    LET u == Head(urefs)
    IN  [ ubuf |-> Slice(StreamBytes(urefs), 0, extracted),
          segs |-> << [lo |-> u.pos, hi |-> u.pos + extracted] >>,
          inserted |-> 0,
          systime_rap |-> u.systime_rap,
          discontinuity |-> u.discontinuity,
          error |-> u.error,
          random |-> FALSE,
          number |-> -1,
          type |-> 0,
          duration |-> 0,
          pts_orig |-> u.pts_orig,
          pts |-> u.pts,
          pts_sys |-> u.pts_sys,
          dts_orig |-> u.dts_orig,
          dts |-> u.dts,
          dts_sys |-> u.dts_sys ]

upipe_mpgvf_extract_uref_stream(s, extracted) ==
    [ uref |-> uref_block_splice(s.urefs, extracted),
      s |-> upipe_mpgvf_consume_uref_stream(s, extracted) ]

\* uref_block_append of the payload behind the prefix
uref_block_append(uref, uref2) ==
    [uref EXCEPT !.ubuf = @ \o uref2.ubuf, !.segs = @ \o uref2.segs]

\* uref_block_insert at offset 0
uref_block_insert(uref, ubuf) ==
    [uref EXCEPT !.ubuf = ubuf \o @, !.inserted = @ + Len(ubuf)]

(***************************************************************************)
(* UPIPE_HELPER_OUTPUT                                                     *)
(***************************************************************************)
upipe_mpgvf_store_flow_def(s, flow_def) ==
    [s EXCEPT !.flow_def = flow_def, !.flow_defs = Append(@, flow_def)]

upipe_mpgvf_output(s, uref) == [s EXCEPT !.output = Append(@, uref)]

(***************************************************************************)
(* upipe_mpgvf_find: finds the next start code from next_frame_size on.    *)
(* The result is [found, start, next, s].                                  *)
(***************************************************************************)
\* the start code of an extension ends the data: it is scanned again later
FindNoRollback(s) == s

\* the scan position is set back behind the first byte of the start code
FindRollbackShort(s) ==
    [s EXCEPT !.scan_context = UINT32_MAX, !.next_frame_size = @ - 3]

FindRollback(s) ==
    [s EXCEPT !.scan_context = UINT32_MAX, !.next_frame_size = @ - 4]

RECURSIVE upipe_mpgvf_find(_)
upipe_mpgvf_find(s) ==
    LET buffer == uref_block_read(s.urefs, s.next_frame_size)
    IN  IF buffer = NULL
        THEN [found |-> FALSE, start |-> -1, next |-> -1, s |-> s]
        ELSE
        LET size == Len(buffer)
            r == upipe_framers_mpeg_scan(buffer, s.scan_context)
            next0 == IF r.p < size THEN buffer[r.p + 1] ELSE -1
        IN  IF ContextIsStartCode(r.scan_context)
            THEN LET start == r.scan_context[4]
                     s1 == [s EXCEPT !.scan_context = r.scan_context,
                                     !.next_frame_size = @ + r.p]
                     one == block_peek(StreamBytes(s1.urefs),
                                       s1.next_frame_size, 1)
                 IN  IF start = MP2VX_START_CODE /\ r.p >= size /\ one = NULL
                     THEN [found |-> FALSE, start |-> start, next |-> -1,
                           s |-> FindRollback(s1)]
                     ELSE [found |-> TRUE, start |-> start,
                           next |-> IF start = MP2VX_START_CODE /\ r.p >= size
                                    THEN one[1] ELSE next0,
                           s |-> s1]
            ELSE upipe_mpgvf_find(
                   [s EXCEPT !.scan_context = r.scan_context,
                             !.next_frame_size = @ + size])


(***************************************************************************)
(* Header field accessors (bitstream/mpeg/mp2v.h).  p is the header, with  *)
(* its start code; B(p, i) is its byte i, counted from 0.                  *)
(***************************************************************************)
B(p, i) == p[i + 1]

mp2vxst_get_id(next) == next \div 16

mp2vseq_get_horizontal(p) == B(p, 4) * 16 + B(p, 5) \div 16

mp2vseq_get_vertical(p) == (B(p, 5) % 16) * 256 + B(p, 6)

mp2vseq_get_aspect(p) == B(p, 7) \div 16

mp2vseq_get_framerate(p) == B(p, 7) % 16

mp2vseq_get_bitrate(p) == B(p, 8) * 1024 + B(p, 9) * 4 + B(p, 10) \div 64

mp2vseq_get_vbvbuffer(p) == (B(p, 10) % 32) * 32 + B(p, 11) \div 8

mp2vseqx_get_profilelevel(p) == (B(p, 4) % 16) * 16 + B(p, 5) \div 16

mp2vseqx_get_progressive(p) == BitSet(B(p, 5), 8)

mp2vseqx_get_chroma(p) == (B(p, 5) \div 2) % 4

mp2vseqx_get_horizontal(p) == (B(p, 5) % 2) * 2 + B(p, 6) \div 128

mp2vseqx_get_vertical(p) == (B(p, 6) \div 32) % 4

mp2vseqx_get_bitrate(p) == (B(p, 6) % 32) * 128 + B(p, 7) \div 2

mp2vseqx_get_vbvbuffer(p) == B(p, 8)

mp2vseqx_get_lowdelay(p) == BitSet(B(p, 9), 128)

mp2vseqx_get_frameraten(p) == (B(p, 9) \div 32) % 4

mp2vseqx_get_framerated(p) == B(p, 9) % 32

mp2vseqdx_get_color(p) == BitSet(B(p, 4), 1)

mp2vseqdx_get_horizontal(p, c) == B(p, 5 + c) * 64 + B(p, 6 + c) \div 4

mp2vseqdx_get_vertical(p, c) ==
    (B(p, 6 + c) % 2) * 8192 + B(p, 7 + c) * 32 + B(p, 8 + c) \div 8

mp2vgop_get_closedgop(p) == BitSet(B(p, 7), 64)

mp2vgop_get_brokenlink(p) == BitSet(B(p, 7), 32)

mp2vpic_get_temporalreference(p) == B(p, 4) * 4 + B(p, 5) \div 64

mp2vpic_get_codingtype(p) == (B(p, 5) \div 8) % 8

mp2vpic_get_vbvdelay(p) ==
    (B(p, 5) % 8) * 8192 + B(p, 6) * 32 + B(p, 7) \div 8

mp2vpicx_get_intradc(p) == (B(p, 6) \div 4) % 4

mp2vpicx_get_structure(p) == B(p, 6) % 4

mp2vpicx_get_tff(p) == BitSet(B(p, 7), 128)

mp2vpicx_get_rff(p) == BitSet(B(p, 7), 2)

mp2vpicx_get_progressive(p) == BitSet(B(p, 8), 128)

(***************************************************************************)
(* 32-bit arithmetic of upipe_mpgvf_parse_sequence, on 16-bit halves       *)
(***************************************************************************)
\* (uint32_t)(bitrate * 400) / 8
Octetrate(bitrate) ==
    LET lo == (bitrate % 65536) * 400
        hi == ((bitrate \div 65536) * 400 + lo \div 65536) % 65536
    IN  hi * 8192 + (lo % 65536) \div 8

\* (uint32_t)(vbvbuffer * 16 * 1024) / 8
CpbBuffer(vbvbuffer) == (vbvbuffer % 262144) * 2048

\* a * b / c on 64 bits, for products that fit 64 bits
MulDiv(a, b, c) == (a \div c) * b + ((a % c) * b) \div c

(***************************************************************************)
(* upipe_mpgvf_parse_sequence: parses the cached sequence header (and      *)
(* extensions) and stores a flow definition.  The result is [ok, s].       *)
(***************************************************************************)
LevelMaxOctetrate(level) ==
    CASE level = MP2VSEQX_LEVEL_LOW -> 4000000 \div 8
      [] level = MP2VSEQX_LEVEL_MAIN -> 15000000 \div 8
      [] level = MP2VSEQX_LEVEL_HIGH1440 -> 60000000 \div 8
      [] level = MP2VSEQX_LEVEL_HIGH -> 80000000 \div 8
      [] OTHER -> 0

ChromaDef(chroma) ==
    CASE chroma = MP2VSEQX_CHROMA_420 -> "block.mpeg2video.pic.planar8_8_420."
      [] chroma = MP2VSEQX_CHROMA_422 -> "block.mpeg2video.pic.planar8_8_422."
      [] chroma = MP2VSEQX_CHROMA_444 -> "block.mpeg2video.pic.planar8_8_444."
      [] OTHER -> ""

AspectSar(aspect, horizontal, vertical) ==
    CASE aspect = MP2VSEQ_ASPECT_SQUARE -> [num |-> 1, den |-> 1]
      [] aspect = MP2VSEQ_ASPECT_4_3 ->
           urational_simplify([num |-> vertical * 4, den |-> horizontal * 3])
      [] aspect = MP2VSEQ_ASPECT_16_9 ->
           urational_simplify([num |-> vertical * 16, den |-> horizontal * 9])
      [] aspect = MP2VSEQ_ASPECT_2_21 ->
           urational_simplify([num |-> vertical * 221,
                               den |-> horizontal * 100])
      [] OTHER -> [num |-> 0, den |-> 0]

upipe_mpgvf_parse_sequence(s) ==
    LET sequence == s.sequence_header
        ext == s.sequence_ext
        display == s.sequence_display
        has_ext == ext # NULL
        aspect == mp2vseq_get_aspect(sequence)
        framerate == mp2vseq_get_framerate(sequence)
        table_rate == frame_rate_from_code(framerate)
        profilelevel == IF has_ext THEN mp2vseqx_get_profilelevel(ext) ELSE 0
        level == profilelevel % (MP2VSEQX_LEVEL_MASK + 1)
        progressive == IF has_ext THEN mp2vseqx_get_progressive(ext) ELSE TRUE
        chroma == IF has_ext THEN mp2vseqx_get_chroma(ext)
                  ELSE MP2VSEQX_CHROMA_420
        horizontal == mp2vseq_get_horizontal(sequence) +
            (IF has_ext THEN mp2vseqx_get_horizontal(ext) * 4096 ELSE 0)
        vertical == mp2vseq_get_vertical(sequence) +
            (IF has_ext THEN mp2vseqx_get_vertical(ext) * 4096 ELSE 0)
        bitrate == mp2vseq_get_bitrate(sequence) +
            (IF has_ext THEN mp2vseqx_get_bitrate(ext) * 262144 ELSE 0)
        vbvbuffer == mp2vseq_get_vbvbuffer(sequence) +
            (IF has_ext THEN mp2vseqx_get_vbvbuffer(ext) * 1024 ELSE 0)
        frame_rate ==
            IF has_ext
            THEN urational_simplify(
                   [num |-> table_rate.num * (mp2vseqx_get_frameraten(ext) + 1),
                    den |-> table_rate.den * (mp2vseqx_get_framerated(ext) + 1)])
            ELSE table_rate
        max_octetrate == IF has_ext THEN LevelMaxOctetrate(level)
                         ELSE 1500000 \div 8
        sar == AspectSar(aspect, horizontal, vertical)
        color == IF display # NULL /\ mp2vseqdx_get_color(display)
                 THEN MP2VSEQDX_COLOR_SIZE ELSE 0
        flow_def ==
            [ def |-> ChromaDef(chroma),
              fps |-> frame_rate,
              max_octetrate |-> max_octetrate,
              octetrate |-> Octetrate(bitrate),
              cpb_buffer |-> CpbBuffer(vbvbuffer),
              hsize |-> horizontal,
              vsize |-> vertical,
              aspect |-> sar,
              profilelevel |-> IF has_ext THEN profilelevel ELSE -1,
              lowdelay |-> has_ext /\ mp2vseqx_get_lowdelay(ext),
              hsize_visible |-> IF display # NULL
                                THEN mp2vseqdx_get_horizontal(display, color)
                                ELSE -1,
              vsize_visible |-> IF display # NULL
                                THEN mp2vseqdx_get_vertical(display, color)
                                ELSE -1 ]
        s_prog == [s EXCEPT !.progressive_sequence = progressive]
    IN  IF table_rate.num = 0
        THEN [ok |-> FALSE, s |-> s]
        ELSE IF has_ext /\ LevelMaxOctetrate(level) = 0
        THEN [ok |-> FALSE, s |-> s]
        ELSE IF ChromaDef(chroma) = ""
        THEN [ok |-> FALSE, s |-> s_prog]
        ELSE IF aspect \notin {MP2VSEQ_ASPECT_SQUARE, MP2VSEQ_ASPECT_4_3,
                               MP2VSEQ_ASPECT_16_9, MP2VSEQ_ASPECT_2_21}
        THEN [ok |-> FALSE, s |-> s_prog]
        ELSE [ok |-> TRUE,
              s |-> upipe_mpgvf_store_flow_def(
                      [s_prog EXCEPT !.sar = sar, !.fps = frame_rate],
                      flow_def)]

(***************************************************************************)
(* Extraction of the sequence header and its extensions from a frame       *)
(***************************************************************************)
upipe_mpgvf_extract_sequence(uref) ==
    LET word == block_peek(uref.ubuf, 11, 1)
        word2 == block_peek(uref.ubuf, 11 + 64, 1)
    IN  IF word = NULL THEN NULL
        ELSE IF BitSet(word[1], 2)
        THEN IF word2 = NULL THEN NULL
             ELSE block_peek(uref.ubuf, 0,
                    MP2VSEQ_HEADER_SIZE + 64 +
                    (IF BitSet(word2[1], 1) THEN 64 ELSE 0))
        ELSE block_peek(uref.ubuf, 0,
               MP2VSEQ_HEADER_SIZE + (IF BitSet(word[1], 1) THEN 64 ELSE 0))

upipe_mpgvf_extract_extension(uref, offset) ==
    block_peek(uref.ubuf, offset, MP2VSEQX_HEADER_SIZE)

upipe_mpgvf_extract_display(uref, offset) ==
    LET word == block_peek(uref.ubuf, offset + 4, 1)
    IN  IF word = NULL THEN NULL
        ELSE block_peek(uref.ubuf, offset,
               MP2VSEQDX_HEADER_SIZE +
               (IF BitSet(word[1], 1) THEN MP2VSEQDX_COLOR_SIZE ELSE 0))

(***************************************************************************)
(* upipe_mpgvf_handle_sequence: handles a frame beginning with a sequence  *)
(* header.  The result is [ok, s].                                         *)
(***************************************************************************)
\* the buffers compared by address: a new one is never the cached one
SequencePointersIdentical(s, header, ext, display) == FALSE

\* the header and its extensions are, byte for byte, the cached ones
SequenceIdentical(s, sequence_header, sequence_ext, sequence_display) ==
    /\ s.sequence_header # NULL
    /\ sequence_header = s.sequence_header
    /\ \/ (s.sequence_ext = NULL /\ sequence_ext = NULL)
       \/ (s.sequence_ext # NULL /\ sequence_ext # NULL /\
           sequence_ext = s.sequence_ext)
    /\ \/ (s.sequence_display = NULL /\ sequence_display = NULL)
       \/ (s.sequence_display # NULL /\ sequence_display # NULL /\
           sequence_display = s.sequence_display)

upipe_mpgvf_handle_sequence(s, uref) ==
    LET sequence_header == upipe_mpgvf_extract_sequence(uref)
        sequence_ext ==
            IF s.next_frame_sequence_ext_offset # -1
            THEN upipe_mpgvf_extract_extension(uref,
                   s.next_frame_sequence_ext_offset)
            ELSE NULL
        sequence_display ==
            IF s.next_frame_sequence_ext_offset # -1 /\
               s.next_frame_sequence_display_offset # -1
            THEN upipe_mpgvf_extract_display(uref,
                   s.next_frame_sequence_display_offset)
            ELSE NULL
        identical == SequenceIdentical(s, sequence_header, sequence_ext,
                                       sequence_display)
        s1 == [s EXCEPT !.sequence_header = sequence_header,
                        !.sequence_ext = sequence_ext,
                        !.sequence_display = sequence_display,
                        !.sequences = Append(@,
                            [header |-> sequence_header,
                             ext |-> sequence_ext,
                             display |-> sequence_display,
                             parsed |-> ~identical])]
    IN  IF sequence_header = NULL THEN [ok |-> FALSE, s |-> s]
        ELSE IF s.next_frame_sequence_ext_offset # -1 /\ sequence_ext = NULL
        THEN [ok |-> FALSE, s |-> s]
        ELSE IF s.next_frame_sequence_ext_offset # -1 /\
                s.next_frame_sequence_display_offset # -1 /\
                sequence_display = NULL
        THEN [ok |-> FALSE, s |-> s]
        ELSE IF identical THEN [ok |-> TRUE, s |-> s1]
        ELSE upipe_mpgvf_parse_sequence(s1)

(***************************************************************************)
(* upipe_mpgvf_parse_picture: parses the GOP header, the picture header    *)
(* and the picture coding extension of a frame.  The result is             *)
(* [ok, s, uref, duration].                                                *)
(***************************************************************************)
\* a header that cannot be read ends the parsing without an event
PeekFailedSilent(st, uref0) ==
    [ok |-> FALSE, s |-> st, uref |-> uref0, duration |-> 0]

\* uref_block_peek gave NULL: upipe_throw_fatal and return false
PeekFailed(st, uref0) ==
    [ok |-> FALSE, s |-> upipe_throw(st, "fatal"), uref |-> uref0,
     duration |-> 0]

\* a field picture lasts half a frame in a progressive sequence too
PictureDurationFields(base, progressive_sequence, structure, tff, rff) ==
    IF progressive_sequence /\ rff THEN base * (1 + (IF tff THEN 1 ELSE 0))
    ELSE IF structure = MP2VPICX_FRAME_PICTURE /\ rff THEN base + base \div 2
    ELSE IF structure # MP2VPICX_FRAME_PICTURE THEN base \div 2
    ELSE base

PictureDuration(base, progressive_sequence, structure, tff, rff) ==
    IF progressive_sequence
    THEN IF rff THEN base * (1 + (IF tff THEN 1 ELSE 0)) ELSE base
    ELSE IF structure = MP2VPICX_FRAME_PICTURE
         THEN IF rff THEN base + base \div 2 ELSE base
         ELSE base \div 2

\* the temporal reference of the last picture kept across the GOP header
KeepTemporalReference(s) == s

\* a GOP header restarts the temporal references
ResetTemporalReference(s) == [s EXCEPT !.last_temporal_reference = -1]

\* the last temporal reference forgotten in the sum
PictureNumberNoReference(s, temporalreference) ==
    s.last_picture_number + temporalreference

PictureNumber(s, temporalreference) ==
    s.last_picture_number +
        (temporalreference - s.last_temporal_reference)

\* the last picture kept whatever its temporal reference
UpdateLastAlways(s, temporalreference, picture_number) ==
    [s EXCEPT !.last_temporal_reference = temporalreference,
              !.last_picture_number = picture_number]

UpdateLast(s, temporalreference, picture_number) ==
    IF temporalreference > s.last_temporal_reference
    THEN [s EXCEPT !.last_temporal_reference = temporalreference,
                   !.last_picture_number = picture_number]
    ELSE s

\* the discontinuities of the input are not looked at
GopDiscontinuityNoInput(s, brokenlink, closed_gop) == brokenlink

\* the broken link of the GOP header is not looked at
GopDiscontinuityNoLink(s, brokenlink, closed_gop) ==
    ~closed_gop /\ s.got_discontinuity

\* the frame is a discontinuity if its GOP header has a broken link, or is
\* not closed after a discontinuity of the input
GopDiscontinuity(s, brokenlink, closed_gop) ==
    brokenlink \/ (~closed_gop /\ s.got_discontinuity)

upipe_mpgvf_parse_picture(s, uref0) ==
    LET has_gop == s.next_frame_gop_offset # -1
        gop == IF has_gop
               THEN block_peek(uref0.ubuf, s.next_frame_gop_offset,
                               MP2VGOP_HEADER_SIZE)
               ELSE NULL
        gop_ok == has_gop /\ gop # NULL
        closed_gop == gop_ok /\ mp2vgop_get_closedgop(gop)
        brokenlink == gop_ok /\ mp2vgop_get_brokenlink(gop)
        s_clo == [s EXCEPT !.closed_gop = closed_gop]
        s_gop == IF gop_ok THEN ResetTemporalReference(s_clo) ELSE s_clo
        uref1 == IF GopDiscontinuity(s, brokenlink, closed_gop)
                 THEN [uref0 EXCEPT !.discontinuity = TRUE]
                 ELSE uref0
        picture == block_peek(uref0.ubuf, s.next_frame_offset,
                              MP2VPIC_HEADER_SIZE)
        temporalreference == mp2vpic_get_temporalreference(picture)
        codingtype == mp2vpic_get_codingtype(picture)
        picture_number == PictureNumber(s_gop, temporalreference)
        s_pic == UpdateLast(s_gop, temporalreference, picture_number)
        uref2 == [uref1 EXCEPT !.number = picture_number,
                               !.type = codingtype]
        base == IF s.fps.num = 0 THEN 0
                ELSE MulDiv(UCLOCK_FREQ, s.fps.den, s.fps.num)
        has_ext == s.next_frame_ext_offset # -1
        ext == IF has_ext
               THEN block_peek(uref0.ubuf, s.next_frame_ext_offset,
                               MP2VPICX_HEADER_SIZE)
               ELSE NULL
        duration ==
            IF has_ext
            THEN PictureDuration(base, s.progressive_sequence,
                                 mp2vpicx_get_structure(ext),
                                 mp2vpicx_get_tff(ext),
                                 mp2vpicx_get_rff(ext))
            ELSE base
    IN  IF has_gop /\ gop = NULL THEN PeekFailed(s_gop, uref0)
        ELSE IF picture = NULL THEN PeekFailed(s_gop, uref0)
        ELSE IF s.fps.num = 0 /\ s.sigfpe
        THEN [ok |-> FALSE, s |-> [s_pic EXCEPT !.trapped = TRUE],
              uref |-> uref0, duration |-> 0]
        ELSE IF has_ext /\ ext = NULL THEN PeekFailed(s_pic, uref0)
        ELSE [ok |-> TRUE, s |-> s_pic,
              uref |-> [uref2 EXCEPT !.duration = duration],
              duration |-> duration]

(***************************************************************************)
(* upipe_mpgvf_handle_picture: handles a frame containing a picture        *)
(* header.  The result is [ok, s, uref, duration].                         *)
(***************************************************************************)
\* the cached headers inserted in the order of the stream
InsertSequenceInOrder(s, uref) ==
    LET u1 == uref_block_insert(uref, s.sequence_header)
        u2 == IF s.sequence_ext # NULL
              THEN uref_block_insert(u1, s.sequence_ext) ELSE u1
    IN  IF s.sequence_display # NULL
        THEN uref_block_insert(u2, s.sequence_display) ELSE u2

InsertSequence(s, uref) ==
    LET u1 == IF s.sequence_display # NULL
              THEN uref_block_insert(uref, s.sequence_display) ELSE uref
        u2 == IF s.sequence_ext # NULL
              THEN uref_block_insert(u1, s.sequence_ext) ELSE u1
    IN  uref_block_insert(u2, s.sequence_header)

\* every I picture is flagged as a random access point
HandleIntraAlways(p, uref) == [uref EXCEPT !.random = TRUE]

\* case MP2VPIC_TYPE_I: the frame is a random access point if it begins with
\* a sequence header, or gets one inserted
HandleIntra(p, uref) ==
    IF p.next_frame_sequence
    THEN [uref EXCEPT !.random = TRUE]
    ELSE IF p.insert_sequence
    THEN [InsertSequence(p, uref) EXCEPT !.random = TRUE]
    ELSE uref

\* the reference RAP left alone after a closed GOP
KeepRapRef(s) == s

\* after a closed GOP header the B pictures refer to the new RAP at once
CollapseRap(s) ==
    IF s.closed_gop THEN [s EXCEPT !.systime_rap_ref = s.systime_rap] ELSE s

\* the rest of upipe_mpgvf_handle_picture, r being what
\* upipe_mpgvf_parse_picture returned
HandleParsedPicture(r) ==
    LET p == r.s
        type == r.uref.type
        uref_i == HandleIntra(p, r.uref)
        s_type ==
            CASE type = MP2VPIC_TYPE_I ->
                   [p EXCEPT !.systime_rap_ref = p.systime_rap,
                             !.systime_rap = r.uref.systime_rap]
              [] type = MP2VPIC_TYPE_P ->
                   [p EXCEPT !.systime_rap_ref = p.systime_rap]
              [] OTHER -> p
        uref_type ==
            CASE type = MP2VPIC_TYPE_I -> uref_i
              [] type = MP2VPIC_TYPE_P ->
                   IF p.systime_rap # UINT64_MAX
                   THEN [r.uref EXCEPT !.systime_rap = p.systime_rap]
                   ELSE r.uref
              [] type = MP2VPIC_TYPE_B ->
                   IF p.systime_rap_ref # UINT64_MAX
                   THEN [r.uref EXCEPT !.systime_rap = p.systime_rap_ref]
                   ELSE r.uref
              [] OTHER -> r.uref
        s_end == CollapseRap(s_type)
    IN  IF ~r.ok THEN r
        ELSE [ok |-> TRUE, s |-> s_end, uref |-> uref_type,
              duration |-> r.duration]

upipe_mpgvf_handle_picture(s, uref0) ==
    HandleParsedPicture(upipe_mpgvf_parse_picture(s, uref0))

(***************************************************************************)
(* upipe_mpgvf_output_frame: handles and outputs a frame.  The result is   *)
(* [ok, s]; ok is false if the stream needs to be resync'd.                *)
(***************************************************************************)
\* the DTS of the next frame is always derived from the one of this frame
IncrementDtsOver(next, dts, duration) ==
    IF dts # UINT64_MAX THEN dts + duration ELSE next

IncrementDts(next, dts, duration) ==
    IF next = UINT64_MAX /\ dts # UINT64_MAX THEN dts + duration ELSE next

\* the headers copied out of the queue and left in it
SpliceHeaders(s) ==
    [uref |-> uref_block_splice(s.urefs, s.next_frame_offset), s |-> s]

\* the headers before the picture start code are taken out of the queue
ExtractHeaders(s) == upipe_mpgvf_extract_uref_stream(s, s.next_frame_offset)

\* the frame is stamped with the timestamps k kept for it, the DTS of the
\* next frame is derived from its duration, and it is output; hp is what
\* upipe_mpgvf_handle_picture returned
OutputFrameStamp(k, hp) ==
    LET f == hp.s
        stamped == [hp.uref EXCEPT !.pts_orig = k.next_frame_pts_orig,
                                   !.pts = k.next_frame_pts,
                                   !.pts_sys = k.next_frame_pts_sys,
                                   !.dts_orig = k.next_frame_dts_orig,
                                   !.dts = k.next_frame_dts,
                                   !.dts_sys = k.next_frame_dts_sys]
        s3 == [f EXCEPT
                !.next_frame_dts_orig =
                    IncrementDts(@, k.next_frame_dts_orig, hp.duration),
                !.next_frame_dts =
                    IncrementDts(@, k.next_frame_dts, hp.duration),
                !.next_frame_dts_sys =
                    IncrementDts(@, k.next_frame_dts_sys, hp.duration)]
    IN  IF ~hp.ok THEN [ok |-> FALSE, s |-> hp.s]
        ELSE [ok |-> TRUE, s |-> upipe_mpgvf_output(s3, stamped)]

\* hs is what upipe_mpgvf_handle_sequence returned, if the frame has one
OutputFramePicture(k, uref, hs) ==
    IF ~hs.ok THEN [ok |-> FALSE, s |-> hs.s]
    ELSE OutputFrameStamp(k, upipe_mpgvf_handle_picture(hs.s, uref))

OutputFrameSequence(k, s, uref) ==
    OutputFramePicture(k, uref,
        IF s.next_frame_sequence
        THEN upipe_mpgvf_handle_sequence(s, uref)
        ELSE [ok |-> TRUE, s |-> s])

\* the timestamps of the frame are kept when the payload is extracted
OutputFramePayloadLate(s, e1) ==
    LET e2 == upipe_mpgvf_extract_uref_stream(
                  e1.s, s.next_frame_size - s.next_frame_offset)
    IN  OutputFrameSequence(e2.s,
            upipe_mpgvf_flush_dts(upipe_mpgvf_flush_pts(e2.s)),
            IF s.next_frame_offset # 0
            THEN uref_block_append(e1.uref, e2.uref)
            ELSE e2.uref)

\* e1 is the extraction of the headers: e1.s keeps the timestamps of the
\* frame, the pending ones are flushed and the payload is extracted
OutputFramePayload(s, e1) ==
    LET e2 == upipe_mpgvf_extract_uref_stream(
                  upipe_mpgvf_flush_dts(upipe_mpgvf_flush_pts(e1.s)),
                  s.next_frame_size - s.next_frame_offset)
    IN  OutputFrameSequence(e1.s, e2.s,
            IF s.next_frame_offset # 0
            THEN uref_block_append(e1.uref, e2.uref)
            ELSE e2.uref)

upipe_mpgvf_output_frame(s) ==
    OutputFramePayload(s,
        IF s.next_frame_offset # 0
        THEN ExtractHeaders(s)
        ELSE [uref |-> NULL, s |-> s])

(***************************************************************************)
(* upipe_mpgvf_reset: resets the internal parsing state                    *)
(***************************************************************************)
upipe_mpgvf_reset(s) ==
    [s EXCEPT !.next_frame_sequence = FALSE,
              !.next_frame_sequence_ext_offset = -1,
              !.next_frame_sequence_display_offset = -1,
              !.next_frame_gop_offset = -1,
              !.next_frame_offset = -1,
              !.next_frame_ext_offset = -1,
              !.next_frame_slice = FALSE]

(***************************************************************************)
(* upipe_mpgvf_work: tries to output frames from the queue of input        *)
(* buffers.  WorkStep is one turn of its loop on the start code found.     *)
(***************************************************************************)
\* the timestamps are flushed before the bytes in front of the picture start
\* code are consumed
WorkNotAcquiredFlushFirst(s, start) ==
    LET f == IF start = MP2VPIC_START_CODE
             THEN upipe_mpgvf_flush_dts(upipe_mpgvf_flush_pts(s))
             ELSE s
        c == [upipe_mpgvf_consume_uref_stream(f, f.next_frame_size - 4)
                EXCEPT !.next_frame_size = 4]
    IN  IF start = MP2VSEQ_START_CODE
        THEN [upipe_mpgvf_sync_acquired(c) EXCEPT
                 !.next_frame_sequence = TRUE]
        ELSE c

\* the framer is acquired at a picture start code as well
WorkNotAcquiredOnPicture(s, start) ==
    LET c == [upipe_mpgvf_consume_uref_stream(s, s.next_frame_size - 4)
                EXCEPT !.next_frame_size = 4]
    IN  CASE start = MP2VPIC_START_CODE ->
               upipe_mpgvf_sync_acquired(
                   upipe_mpgvf_flush_dts(upipe_mpgvf_flush_pts(c)))
          [] start = MP2VSEQ_START_CODE ->
               [upipe_mpgvf_sync_acquired(c) EXCEPT
                  !.next_frame_sequence = TRUE]
          [] OTHER -> c

\* the scan position is left where the start code was found when the bytes
\* in front of it are consumed
WorkNotAcquiredKeepsSize(s, start) ==
    LET c == upipe_mpgvf_consume_uref_stream(s, s.next_frame_size - 4)
    IN  CASE start = MP2VPIC_START_CODE ->
               upipe_mpgvf_flush_dts(upipe_mpgvf_flush_pts(c))
          [] start = MP2VSEQ_START_CODE ->
               [upipe_mpgvf_sync_acquired(c) EXCEPT
                  !.next_frame_sequence = TRUE]
          [] OTHER -> c

WorkNotAcquired(s, start) ==
    LET c == [upipe_mpgvf_consume_uref_stream(s, s.next_frame_size - 4)
                EXCEPT !.next_frame_size = 4]
    IN  CASE start = MP2VPIC_START_CODE ->
               upipe_mpgvf_flush_dts(upipe_mpgvf_flush_pts(c))
          [] start = MP2VSEQ_START_CODE ->
               [upipe_mpgvf_sync_acquired(c) EXCEPT
                  !.next_frame_sequence = TRUE]
          [] OTHER -> c

WorkNoPicture(s, start, next) ==
    IF start = MP2VX_START_CODE
    THEN IF mp2vxst_get_id(next) = MP2VX_ID_SEQX
         THEN [s EXCEPT !.next_frame_sequence_ext_offset =
                            s.next_frame_size - 4]
         ELSE IF mp2vxst_get_id(next) = MP2VX_ID_SEQDX
         THEN [s EXCEPT !.next_frame_sequence_display_offset =
                            s.next_frame_size - 4]
         ELSE s
    ELSE IF start = MP2VGOP_START_CODE
    THEN [s EXCEPT !.next_frame_gop_offset = s.next_frame_size - 4]
    ELSE IF start = MP2VPIC_START_CODE
    THEN [s EXCEPT !.next_frame_offset = s.next_frame_size - 4]
    ELSE s

\* every start code is taken as a slice header
IsAnyHeader(start) == start >= MP2VPIC_START_CODE /\ start <= MP2VPIC_LAST_CODE

IsSliceHeader(start) ==
    start > MP2VPIC_START_CODE /\ start <= MP2VPIC_LAST_CODE

\* the start code that ends the frame is always left out of it
FrameEndBeforeCode(s, start) == [s EXCEPT !.next_frame_size = @ - 4]

\* the frame ends before the start code found, but behind an END code
FrameEnd(s, start) ==
    IF start # MP2VEND_START_CODE
    THEN [s EXCEPT !.next_frame_size = @ - 4] ELSE s

\* the start code behind the frame is forgotten
RecordNoRole(n, start) == n

\* the framer stays acquired behind an END code
RecordRoleKeepsSync(n, start) ==
    CASE start = MP2VSEQ_START_CODE ->
            [n EXCEPT !.next_frame_sequence = TRUE]
      [] start = MP2VGOP_START_CODE ->
            [n EXCEPT !.next_frame_gop_offset = 0]
      [] start = MP2VPIC_START_CODE ->
            [n EXCEPT !.next_frame_offset = 0]
      [] start = MP2VEND_START_CODE -> [n EXCEPT !.next_frame_size = 0]
      [] OTHER -> upipe_mpgvf_sync_lost(n)

\* the start code behind the frame given to the output begins the next one
RecordRole(n, start) ==
    CASE start = MP2VSEQ_START_CODE ->
            [n EXCEPT !.next_frame_sequence = TRUE]
      [] start = MP2VGOP_START_CODE ->
            [n EXCEPT !.next_frame_gop_offset = 0]
      [] start = MP2VPIC_START_CODE ->
            [n EXCEPT !.next_frame_offset = 0]
      [] start = MP2VEND_START_CODE ->
            upipe_mpgvf_sync_lost([n EXCEPT !.next_frame_size = 0])
      [] OTHER -> upipe_mpgvf_sync_lost(n)

\* o is what upipe_mpgvf_output_frame returned
\* a frame with erroneous headers is dropped and the framer stays acquired
WorkFrameStaysAcquired(o, start) ==
    LET n == [upipe_mpgvf_reset(o.s) EXCEPT !.next_frame_size = 4]
    IN  CASE start = MP2VSEQ_START_CODE ->
                [n EXCEPT !.next_frame_sequence = TRUE]
          [] start = MP2VGOP_START_CODE ->
                [n EXCEPT !.next_frame_gop_offset = 0]
          [] start = MP2VPIC_START_CODE ->
                [n EXCEPT !.next_frame_offset = 0]
          [] start = MP2VEND_START_CODE ->
                upipe_mpgvf_sync_lost([n EXCEPT !.next_frame_size = 0])
          [] OTHER -> upipe_mpgvf_sync_lost(n)

\* behind a frame with erroneous headers the scan goes on behind the start
\* code that ended it
WorkFrameNoRescan(o, start) ==
    LET n == [upipe_mpgvf_reset(o.s) EXCEPT !.next_frame_size = 4]
    IN  IF o.s.trapped THEN o.s
        ELSE IF ~o.ok
        THEN upipe_mpgvf_reset(upipe_mpgvf_sync_lost(
                 [o.s EXCEPT !.next_frame_size =
                                 IF start = MP2VEND_START_CODE THEN 0 ELSE 4]))
        ELSE RecordRole(n, start)

WorkFrame(o, start) ==
    LET n == [upipe_mpgvf_reset(o.s) EXCEPT !.next_frame_size = 4]
    IN  IF o.s.trapped THEN o.s
        ELSE IF ~o.ok
        THEN upipe_mpgvf_reset(upipe_mpgvf_sync_lost(
                 [o.s EXCEPT !.next_frame_size = 0,
                             !.scan_context = UINT32_MAX]))
        ELSE RecordRole(n, start)

\* a start code that begins nothing is skipped like user data
WorkBoundaryKnown(s, start) ==
    IF start \in {MP2VSEQ_START_CODE, MP2VGOP_START_CODE,
                  MP2VPIC_START_CODE, MP2VEND_START_CODE}
    THEN WorkFrame(upipe_mpgvf_output_frame(FrameEnd(s, start)), start)
    ELSE s

WorkBoundary(s, start) ==
    WorkFrame(upipe_mpgvf_output_frame(FrameEnd(s, start)), start)

WorkStep(s, start, next) ==
    IF ~s.acquired THEN WorkNotAcquired(s, start)
    ELSE IF s.next_frame_offset = -1 THEN WorkNoPicture(s, start, next)
    ELSE IF start = MP2VX_START_CODE
    THEN IF mp2vxst_get_id(next) = MP2VX_ID_PICX
         THEN [s EXCEPT !.next_frame_ext_offset = s.next_frame_size - 4]
         ELSE s
    ELSE IF start = MP2VUSR_START_CODE THEN s
    ELSE IF IsSliceHeader(start)
    THEN [s EXCEPT !.next_frame_slice = TRUE]
    ELSE WorkBoundary(s, start)

RECURSIVE upipe_mpgvf_work(_)

\* f is what upipe_mpgvf_find returned
WorkFound(f) ==
    IF ~f.found THEN f.s
    ELSE upipe_mpgvf_work(WorkStep(f.s, f.start, f.next))

\* one iteration of the loop of upipe_mpgvf_work, f being what
\* upipe_mpgvf_find returned: return, or handle the start code and continue
WorkReturn(f) ==
    IF ~f.found THEN [f.s EXCEPT !.working = FALSE]
    ELSE WorkStep(f.s, f.start, f.next)

\* the test of the loop and one iteration
WorkIteration(s) ==
    IF s.urefs = <<>> THEN [s EXCEPT !.working = FALSE]
    ELSE WorkReturn(upipe_mpgvf_find(s))

upipe_mpgvf_work(s) ==
    IF s.urefs = <<>> \/ s.trapped THEN s
    ELSE WorkFound(upipe_mpgvf_find(s))

(***************************************************************************)
(* upipe_mpgvf_input: receives data                                        *)
(***************************************************************************)
\* the discontinuity of the input is not looked at
InputContinuous(s) == s

\* a discontinuity drops what is buffered wherever it comes
InputDiscontinuityDrops(s) ==
    upipe_mpgvf_reset(upipe_mpgvf_sync_lost(
        [upipe_mpgvf_init_uref_stream(upipe_mpgvf_clean_uref_stream(s))
           EXCEPT !.got_discontinuity = TRUE,
                  !.next_frame_size = 0,
                  !.scan_context = UINT32_MAX]))

\* a discontinuity in the headers throws sync_lost whether the framer is
\* acquired or not
InputDiscontinuityThrows(s) ==
    IF ~s.next_frame_slice
    THEN upipe_mpgvf_reset(upipe_throw(
           [upipe_mpgvf_init_uref_stream(upipe_mpgvf_clean_uref_stream(s))
              EXCEPT !.got_discontinuity = TRUE,
                     !.next_frame_size = 0,
                     !.scan_context = UINT32_MAX,
                     !.acquired = FALSE], "sync_lost"))
    ELSE [s EXCEPT !.urefs[1].error = TRUE]

\* a discontinuity in the headers before the first slice header drops what
\* is buffered; inside the slices it only flags the buffer
InputDiscontinuity(s) ==
    IF ~s.next_frame_slice
    THEN upipe_mpgvf_reset(upipe_mpgvf_sync_lost(
           [upipe_mpgvf_init_uref_stream(upipe_mpgvf_clean_uref_stream(s))
              EXCEPT !.got_discontinuity = TRUE,
                     !.next_frame_size = 0,
                     !.scan_context = UINT32_MAX]))
    ELSE [s EXCEPT !.urefs[1].error = TRUE]

\* the discontinuity of a uref without ubuf is handled as any other
InputMarkerFlagged(s, uref) ==
    upipe_mpgvf_output(IF uref.discontinuity THEN InputDiscontinuity(s) ELSE s,
                       uref)

\* a uref without ubuf goes to the output as it is
InputMarker(s, uref) == upipe_mpgvf_output(s, uref)

upipe_mpgvf_input(s, uref) ==
    IF uref.ubuf = NULL THEN InputMarker(s, uref)
    ELSE upipe_mpgvf_work(upipe_mpgvf_append_uref_stream(
             IF uref.discontinuity THEN InputDiscontinuity(s) ELSE s, uref))

_upipe_mpgvf_set_sequence_insertion(s, val) ==
    [s EXCEPT !.insert_sequence = val]

(***************************************************************************)
(* Elements of an elementary stream, as the bytes ISO 13818-2 gives them   *)
(***************************************************************************)
StartCode(id) == <<0, 0, 1, id>>

\* sequence header, without quantiser matrices
SequenceHeader(horizontal, vertical, aspect, framerate, bitrate, vbvbuffer) ==
    StartCode(MP2VSEQ_START_CODE) \o
    << horizontal \div 16,
       (horizontal % 16) * 16 + vertical \div 256,
       vertical % 256,
       aspect * 16 + framerate,
       bitrate \div 1024,
       (bitrate \div 4) % 256,
       (bitrate % 4) * 64 + 32 + vbvbuffer \div 32,
       (vbvbuffer % 32) * 8 >>

SequenceExtension(profilelevel, progressive, chroma, lowdelay) ==
    StartCode(MP2VX_START_CODE) \o
    << MP2VX_ID_SEQX * 16 + profilelevel \div 16,
       (profilelevel % 16) * 16 + (IF progressive THEN 8 ELSE 0) + chroma * 2,
       0, 1, 0,
       IF lowdelay THEN 128 ELSE 0 >>

SequenceDisplay(horizontal, vertical) ==
    StartCode(MP2VX_START_CODE) \o
    << MP2VX_ID_SEQDX * 16,
       horizontal \div 64,
       (horizontal % 64) * 4 + 2 + vertical \div 8192,
       (vertical \div 32) % 256,
       (vertical % 32) * 8 >>

GopHeader(closedgop, brokenlink) ==
    StartCode(MP2VGOP_START_CODE) \o
    << 0, 8, 0,
       (IF closedgop THEN 64 ELSE 0) + (IF brokenlink THEN 32 ELSE 0) >>

\* picture header with vbv_delay 0xffff
PictureHeader(temporalreference, codingtype) ==
    StartCode(MP2VPIC_START_CODE) \o
    << temporalreference \div 4,
       (temporalreference % 4) * 64 + codingtype * 8 + 7,
       255, 248 >>

PictureExtension(structure, tff, rff, progressive) ==
    StartCode(MP2VX_START_CODE) \o
    << MP2VX_ID_PICX * 16 + 15, 255, 240 + structure,
       (IF tff THEN 128 ELSE 0) + (IF rff THEN 2 ELSE 0),
       IF progressive THEN 128 ELSE 0 >>

SliceData(vertical_position) == StartCode(vertical_position) \o <<26>>

UserData == StartCode(MP2VUSR_START_CODE) \o <<85>>

EndCode == StartCode(MP2VEND_START_CODE)

\* 720x480, 4:3, 30000/1001, 15 Mb/s
SeqA == SequenceHeader(720, 480, MP2VSEQ_ASPECT_4_3, 4, 37500, 112)
\* 352x288, square, 25
SeqB == SequenceHeader(352, 288, MP2VSEQ_ASPECT_SQUARE, 3, 2875, 20)
\* Main profile at Main level, progressive, 4:2:0
SeqX == SequenceExtension(72, TRUE, MP2VSEQX_CHROMA_420, FALSE)
\* Main profile at Main level, interlaced, 4:2:0
SeqXi == SequenceExtension(72, FALSE, MP2VSEQX_CHROMA_420, FALSE)
SeqDX == SequenceDisplay(704, 480)
PicX == PictureExtension(MP2VPICX_FRAME_PICTURE, TRUE, FALSE, TRUE)

Picture(temporalreference, codingtype) ==
    PictureHeader(temporalreference, codingtype) \o SliceData(1)

\* positions, counted from 0, of the start codes with the given identifier
StartCodesAt(bytes, id) ==
    { p \in 0..(Len(bytes) - 4) :
        /\ bytes[p + 1] = 0 /\ bytes[p + 2] = 0 /\ bytes[p + 3] = 1
        /\ bytes[p + 4] = id }

AllStartCodes(bytes) ==
    { p \in 0..(Len(bytes) - 4) :
        bytes[p + 1] = 0 /\ bytes[p + 2] = 0 /\ bytes[p + 3] = 1 }

(***************************************************************************)
(* Streams given to the framer                                             *)
(***************************************************************************)
\* two GOPs, the second one without sequence header, then END
StreamTwoGops ==
    SeqA \o SeqX \o GopHeader(TRUE, FALSE) \o Picture(0, MP2VPIC_TYPE_I) \o
    GopHeader(FALSE, FALSE) \o Picture(0, MP2VPIC_TYPE_I) \o
    Picture(1, MP2VPIC_TYPE_P) \o EndCode

\* two sequences, the first one with extensions and user data
StreamTwoSequences ==
    SeqB \o SeqXi \o SeqDX \o PictureHeader(0, MP2VPIC_TYPE_I) \o PicX \o
    SliceData(1) \o UserData \o SliceData(2) \o
    GopHeader(TRUE, FALSE) \o Picture(0, MP2VPIC_TYPE_I) \o EndCode \o
    SeqB \o Picture(0, MP2VPIC_TYPE_I) \o EndCode

\* the same sequence header before each of two pictures
StreamRepeatedSequence ==
    SeqA \o SeqX \o Picture(0, MP2VPIC_TYPE_I) \o
    SeqA \o SeqX \o Picture(1, MP2VPIC_TYPE_P) \o EndCode

\* temporal references 2, 5, 0, 1 in one GOP
StreamReorder ==
    SeqA \o SeqX \o GopHeader(TRUE, FALSE) \o Picture(2, MP2VPIC_TYPE_I) \o
    Picture(5, MP2VPIC_TYPE_P) \o Picture(0, MP2VPIC_TYPE_B) \o
    Picture(1, MP2VPIC_TYPE_B) \o EndCode

\* a single I picture
StreamSingle ==
    SeqA \o SeqX \o GopHeader(TRUE, FALSE) \o Picture(0, MP2VPIC_TYPE_I) \o
    EndCode

\* a stream that stops in the middle of a picture
StreamUnfinished ==
    SeqA \o Picture(0, MP2VPIC_TYPE_I) \o PictureHeader(1, MP2VPIC_TYPE_P)

\* data before the first sequence header and a start code 0xb9 in a picture
StreamForeignCode ==
    <<9>> \o PictureHeader(0, MP2VPIC_TYPE_I) \o SeqA \o
    Picture(0, MP2VPIC_TYPE_I) \o StartCode(185) \o
    Picture(1, MP2VPIC_TYPE_P) \o SeqA \o Picture(0, MP2VPIC_TYPE_I) \o
    EndCode

\* a picture start code directly followed by the next picture
StreamShortPicture ==
    SeqA \o StartCode(MP2VPIC_START_CODE) \o Picture(0, MP2VPIC_TYPE_I) \o
    SeqA \o Picture(0, MP2VPIC_TYPE_I) \o EndCode

\* streams made of complete sequences: SEQ ... END, pictures with slices
WellFormedStreams ==
    { StreamTwoGops, StreamTwoSequences, StreamRepeatedSequence,
      StreamReorder, StreamSingle }

Streams ==
    WellFormedStreams \cup
    { StreamUnfinished, StreamForeignCode, StreamShortPicture }

(***************************************************************************)
(* The pipe and its upstream.  es is the elementary stream of the          *)
(* upstream and fed the number of its bytes already given to input().      *)
(* The upstream cuts es into chunks: all of size `size` when size > 0,     *)
(* else at most MaxCuts chunks of any size and then the rest in one chunk. *)
(* At most `stamps` more chunks carry a PTS and at most `ctl` more control *)
(* commands are sent.  fedlog records the chunks given so far.  When the   *)
(* upstream makes the stream up as it goes, gop holds the temporal         *)
(* references of the pictures of the GOP it is in.                         *)
(***************************************************************************)
VARIABLES upipe_mpgvf, es, fed, size, cuts, stamps, ctl, ctl_mid, fedlog, gop

vars ==
    <<upipe_mpgvf, es, fed, size, cuts, stamps, ctl, ctl_mid, fedlog, gop>>

\* largest size of the equal-sized chunks
MaxChunk == 4
\* chunks of any size before the rest is given in one chunk
MaxCuts == 1
\* chunks that carry a PTS
MaxStamped == 1
\* control commands
MaxControls == 1
\* pictures of a GOP, and the temporal references they take
MaxGop == 3
\* pictures of a stream made up by the upstream
MaxPictures == 4

Remaining == Len(es) - fed

ChunkSizes ==
    IF size > 0 THEN {Min(size, Remaining)}
    ELSE IF cuts < MaxCuts THEN 1..Remaining
    ELSE {Remaining}

PtsOrigOf(pos) == 1000 + pos
PtsOf(pos) == 2000 + pos
PtsSysOf(pos) == 3000 + pos

InputUref(n, stamped) ==
    [ ubuf |-> Slice(es, fed, n),
      pos |-> fed,
      pts_orig |-> IF stamped THEN PtsOrigOf(fed) ELSE UINT64_MAX,
      pts |-> IF stamped THEN PtsOf(fed) ELSE UINT64_MAX,
      pts_sys |-> IF stamped THEN PtsSysOf(fed) ELSE UINT64_MAX,
      dts_orig |-> UINT64_MAX,
      dts |-> UINT64_MAX,
      dts_sys |-> UINT64_MAX,
      systime_rap |-> UINT64_MAX,
      discontinuity |-> FALSE,
      error |-> FALSE ]

InitPipe ==
    /\ upipe_mpgvf = upipe_mpgvf_alloc
    /\ fed = 0
    /\ ctl_mid = FALSE
    /\ fedlog = <<>>
    /\ gop = <<>>

\* upipe_input with a chunk of the stream
Input ==
    /\ ~upipe_mpgvf.trapped
    /\ Remaining > 0
    /\ \E n \in ChunkSizes, stamped \in {FALSE} \cup {stamps > 0} :
         /\ upipe_mpgvf' = upipe_mpgvf_input(upipe_mpgvf, InputUref(n, stamped))
         /\ fed' = fed + n
         /\ cuts' = cuts + 1
         /\ stamps' = IF stamped THEN stamps - 1 ELSE stamps
         /\ fedlog' = Append(fedlog,
                             [lo |-> fed, hi |-> fed + n, stamped |-> stamped])
    /\ UNCHANGED <<es, size, ctl, ctl_mid, gop>>

\* upipe_control UPIPE_MPGVF_SET_SEQUENCE_INSERTION
SetSequenceInsertion ==
    /\ ctl > 0
    /\ \E val \in BOOLEAN :
         /\ val # upipe_mpgvf.insert_sequence
         /\ upipe_mpgvf' = _upipe_mpgvf_set_sequence_insertion(upipe_mpgvf, val)
    /\ ctl' = ctl - 1
    /\ ctl_mid' = (ctl_mid \/ fed > 0)
    /\ UNCHANGED <<es, fed, size, cuts, stamps, fedlog, gop>>

(***************************************************************************)
(* Spec: framing of the streams, cut in every way the bounds allow, with   *)
(* sequence insertion switched by control commands                         *)
(***************************************************************************)
Init ==
    /\ InitPipe
    /\ es \in Streams
    /\ size \in 0..MaxChunk
    /\ cuts = 0
    /\ stamps = 0
    /\ ctl = MaxControls

Next == Input \/ SetSequenceInsertion

Spec == Init /\ [][Next]_vars

(***************************************************************************)
(* SpecTs: a stream cut in every way the bounds allow, with a PTS on some  *)
(* of the chunks                                                           *)
(***************************************************************************)
\* pictures with and without headers before them
StreamTs ==
    SeqA \o Picture(0, MP2VPIC_TYPE_I) \o Picture(1, MP2VPIC_TYPE_P) \o
    GopHeader(FALSE, FALSE) \o Picture(0, MP2VPIC_TYPE_I) \o EndCode

InitTs ==
    /\ InitPipe
    /\ es = StreamTs
    /\ size \in 0..MaxChunk
    /\ cuts = 0
    /\ stamps = MaxStamped
    /\ ctl = 0

NextTs == Input

SpecTs == InitTs /\ [][NextTs]_vars

(***************************************************************************)
(* SpecNum: the upstream makes up the stream, GOP after GOP, with any     *)
(* temporal references the bounds allow, and gives each piece in one chunk *)
(***************************************************************************)
Ended ==
    Len(es) >= 4 /\ SubSeq(es, Len(es) - 3, Len(es)) = EndCode

Range(seq) == { seq[i] : i \in 1..Len(seq) }

CanProduce ==
    /\ Remaining = 0
    /\ ~Ended
    /\ Cardinality(StartCodesAt(es, MP2VPIC_START_CODE)) < MaxPictures

\* a GOP header and the I picture behind it
ProduceGop ==
    /\ CanProduce
    /\ \E t \in 0..(MaxGop - 1) :
         /\ es' = es \o GopHeader(FALSE, FALSE) \o Picture(t, MP2VPIC_TYPE_I)
         /\ gop' = <<t>>
    /\ UNCHANGED <<upipe_mpgvf, fed, size, cuts, stamps, ctl, ctl_mid, fedlog>>

\* one more picture of the GOP: P if it is displayed after all the ones
\* before it, else B
ProducePicture ==
    /\ CanProduce
    /\ gop # <<>>
    /\ Len(gop) < MaxGop
    /\ \E t \in (0..(MaxGop - 1)) \ Range(gop) :
         /\ es' = es \o Picture(t, IF \A u \in Range(gop) : u < t
                                    THEN MP2VPIC_TYPE_P ELSE MP2VPIC_TYPE_B)
         /\ gop' = Append(gop, t)
    /\ UNCHANGED <<upipe_mpgvf, fed, size, cuts, stamps, ctl, ctl_mid, fedlog>>

ProduceEnd ==
    /\ Remaining = 0
    /\ ~Ended
    /\ gop # <<>>
    /\ es' = es \o EndCode
    /\ gop' = <<>>
    /\ UNCHANGED <<upipe_mpgvf, fed, size, cuts, stamps, ctl, ctl_mid, fedlog>>

InitNum ==
    /\ InitPipe
    /\ es = SeqA \o SeqX
    /\ size = 0
    /\ cuts = MaxCuts
    /\ stamps = 0
    /\ ctl = 0

NextNum == ProduceGop \/ ProducePicture \/ ProduceEnd \/ Input

SpecNum == InitNum /\ [][NextNum]_vars

(***************************************************************************)
(* SpecRap: the upstream makes up the stream picture after picture, I      *)
(* pictures with a closed or open GOP header or with none, P and B         *)
(* pictures, and gives each piece in one chunk, with or without a          *)
(* systime_rap                                                             *)
(***************************************************************************)
RapOf(pos) == 4000 + pos

InputUrefRap(piece, rap) ==
    [InputUref(0, FALSE) EXCEPT !.ubuf = piece, !.systime_rap = rap]

\* the upstream makes up a piece and gives it to upipe_input in one chunk,
\* with a systime_rap or, if it may, without
GiveRap(piece, may_lack) ==
    /\ ~upipe_mpgvf.trapped
    /\ Remaining = 0
    /\ \E rap \in {RapOf(fed)} \cup (IF may_lack THEN {UINT64_MAX} ELSE {}) :
         /\ upipe_mpgvf' =
                upipe_mpgvf_input(upipe_mpgvf, InputUrefRap(piece, rap))
         /\ fedlog' = Append(fedlog,
                [lo |-> fed, hi |-> fed + Len(piece), stamped |-> FALSE,
                 rap |-> rap])
    /\ es' = es \o piece
    /\ fed' = fed + Len(piece)
    /\ UNCHANGED <<size, cuts, stamps, ctl, ctl_mid>>

\* the sequence header
GiveRapSequence ==
    /\ es = <<>>
    /\ GiveRap(SeqA, TRUE)
    /\ UNCHANGED gop

\* a GOP header, closed or open, and the I picture behind it
GiveRapGop ==
    /\ es # <<>>
    /\ CanProduce
    /\ \E closedgop \in BOOLEAN :
         GiveRap(GopHeader(closedgop, FALSE) \o Picture(0, MP2VPIC_TYPE_I), TRUE)
    /\ gop' = <<0>>

\* a picture without GOP header
GiveRapPicture ==
    /\ es # <<>>
    /\ CanProduce
    /\ \E codingtype \in {MP2VPIC_TYPE_I, MP2VPIC_TYPE_P, MP2VPIC_TYPE_B} :
         GiveRap(Picture(Len(gop), codingtype), codingtype = MP2VPIC_TYPE_I)
    /\ gop' = Append(gop, Len(gop))

GiveRapEnd ==
    /\ es # <<>>
    /\ ~Ended
    /\ GiveRap(EndCode, FALSE)
    /\ UNCHANGED gop

InitRap ==
    /\ InitPipe
    /\ es = <<>>
    /\ size = 0
    /\ cuts = MaxCuts
    /\ stamps = 0
    /\ ctl = 0

NextRap == GiveRapSequence \/ GiveRapGop \/ GiveRapPicture \/ GiveRapEnd

SpecRap == InitRap /\ [][NextRap]_vars

(***************************************************************************)
(* SpecDisc: a stream cut in every way the bounds allow, some of the       *)
(* chunks flagged as discontinuities.  fedlog keeps, with each chunk, what *)
(* the pipe was like when it came.                                         *)
(***************************************************************************)
\* chunks flagged as discontinuities
MaxDiscontinuities == 1

Discontinuities == { c \in 1..Len(fedlog) : fedlog[c].discontinuity }

InputUrefDisc(n, discontinuity) ==
    [InputUref(n, FALSE) EXCEPT !.discontinuity = discontinuity]

\* upipe_input with a chunk of the stream
InputDisc ==
    /\ ~upipe_mpgvf.trapped
    /\ Remaining > 0
    /\ \E n \in ChunkSizes,
          discontinuity \in {FALSE} \cup
              {Cardinality(Discontinuities) < MaxDiscontinuities} :
         /\ upipe_mpgvf' =
                upipe_mpgvf_input(upipe_mpgvf, InputUrefDisc(n, discontinuity))
         /\ fed' = fed + n
         /\ fedlog' = Append(fedlog,
                [lo |-> fed, hi |-> fed + n, stamped |-> FALSE,
                 discontinuity |-> discontinuity,
                 slice |-> upipe_mpgvf.next_frame_slice,
                 acquired |-> upipe_mpgvf.acquired,
                 frames |-> Len(upipe_mpgvf.output),
                 events |-> Len(upipe_mpgvf.uprobe)])
    /\ cuts' = cuts + 1
    /\ UNCHANGED <<es, size, stamps, ctl, ctl_mid, gop>>

InitDisc ==
    /\ InitPipe
    /\ es \in {StreamTwoGops, StreamTwoSequences}
    /\ size \in 0..MaxChunk
    /\ cuts = 0
    /\ stamps = 0
    /\ ctl = 0

NextDisc == InputDisc

SpecDisc == InitDisc /\ [][NextDisc]_vars

(***************************************************************************)
(* SpecLink: the upstream makes up the stream picture after picture, the   *)
(* GOP headers closed or open, with or without broken link                 *)
(***************************************************************************)
\* a GOP header and the I picture behind it
GiveLinkGop ==
    /\ es # <<>>
    /\ CanProduce
    /\ \E closedgop \in BOOLEAN, brokenlink \in BOOLEAN :
         GiveRap(GopHeader(closedgop, brokenlink) \o
                 Picture(0, MP2VPIC_TYPE_I), FALSE)
    /\ gop' = <<0>>

\* a P or B picture of the GOP
GiveLinkPicture ==
    /\ es # <<>>
    /\ gop # <<>>
    /\ CanProduce
    /\ \E codingtype \in {MP2VPIC_TYPE_P, MP2VPIC_TYPE_B} :
         GiveRap(Picture(Len(gop), codingtype), FALSE)
    /\ gop' = Append(gop, Len(gop))

NextLink == GiveRapSequence \/ GiveLinkGop \/ GiveLinkPicture \/ GiveRapEnd

SpecLink == InitRap /\ [][NextLink]_vars

(***************************************************************************)
(* SpecMark: the stream is given in chunks, and between any two of them    *)
(* the upstream may give a uref without ubuf, with or without the          *)
(* discontinuity flag                                                      *)
(***************************************************************************)
\* urefs without ubuf
MaxMarkers == 1

Markers == { c \in 1..Len(fedlog) : fedlog[c].lo = fedlog[c].hi }

MarkerUref(discontinuity) ==
    [InputUref(0, FALSE) EXCEPT !.ubuf = NULL, !.discontinuity = discontinuity]

InputMarkChunk ==
    /\ ~upipe_mpgvf.trapped
    /\ Remaining > 0
    /\ \E n \in ChunkSizes :
         /\ upipe_mpgvf' = upipe_mpgvf_input(upipe_mpgvf, InputUref(n, FALSE))
         /\ fed' = fed + n
         /\ fedlog' = Append(fedlog,
                [lo |-> fed, hi |-> fed + n, stamped |-> FALSE,
                 uref |-> InputUref(n, FALSE)])
    /\ cuts' = cuts + 1
    /\ UNCHANGED <<es, size, stamps, ctl, ctl_mid, gop>>

\* upipe_input with a uref without ubuf
InputMark ==
    /\ ~upipe_mpgvf.trapped
    /\ Cardinality(Markers) < MaxMarkers
    /\ \E discontinuity \in BOOLEAN :
         /\ upipe_mpgvf' =
                upipe_mpgvf_input(upipe_mpgvf, MarkerUref(discontinuity))
         /\ fedlog' = Append(fedlog,
                [lo |-> fed, hi |-> fed, stamped |-> FALSE,
                 uref |-> MarkerUref(discontinuity)])
    /\ UNCHANGED <<es, fed, size, cuts, stamps, ctl, ctl_mid, gop>>

NextMark == InputMarkChunk \/ InputMark

SpecMark == InitDisc /\ [][NextMark]_vars

(***************************************************************************)
(* SpecInv: the upstream gives sequence headers with supported or          *)
(* unsupported codes, each followed by pictures                            *)
(***************************************************************************)
\* sequence headers given
MaxInvSequences == 2
\* pictures given
MaxInvPictures == 3

\* frame rate code 0, 14 or 15; aspect ratio code 0; level 15; chroma format 0
InvalidSequences ==
    { SequenceHeader(720, 480, MP2VSEQ_ASPECT_4_3, code, 37500, 112) :
        code \in {0, 14, 15} } \cup
    { SequenceHeader(720, 480, 0, 4, 37500, 112),
      SeqA \o SequenceExtension(79, TRUE, MP2VSEQX_CHROMA_420, FALSE),
      SeqA \o SequenceExtension(72, TRUE, 0, FALSE) }

ValidSequences == {SeqA, SeqB \o SeqX}

\* the last piece given is a picture
PictureGiven ==
    /\ fedlog # <<>>
    /\ Slice(es, fedlog[Len(fedlog)].lo, 4) = StartCode(MP2VPIC_START_CODE)

GiveInvSequence ==
    /\ es = <<>> \/ PictureGiven
    /\ Cardinality(StartCodesAt(es, MP2VSEQ_START_CODE)) < MaxInvSequences
    /\ \E piece \in ValidSequences \cup InvalidSequences :
         GiveRap(piece, FALSE)
    /\ UNCHANGED gop

GiveInvPicture ==
    /\ es # <<>>
    /\ ~Ended
    /\ Len(gop) < MaxInvPictures
    /\ \E codingtype \in {MP2VPIC_TYPE_I, MP2VPIC_TYPE_P} :
         GiveRap(Picture(Len(gop), codingtype), FALSE)
    /\ gop' = Append(gop, Len(gop))

\* the build stops the process at a division by zero, or does not
InitInv ==
    /\ upipe_mpgvf \in
         {[upipe_mpgvf_alloc EXCEPT !.sigfpe = b] : b \in BOOLEAN}
    /\ es = <<>>
    /\ fed = 0
    /\ size = 0
    /\ cuts = MaxCuts
    /\ stamps = 0
    /\ ctl = 0
    /\ ctl_mid = FALSE
    /\ fedlog = <<>>
    /\ gop = <<>>

NextInv == GiveInvSequence \/ GiveInvPicture \/ GiveRapEnd

SpecInv == InitInv /\ [][NextInv]_vars

(***************************************************************************)
(* SpecShort: streams with a frame that ends inside its GOP header, its    *)
(* picture header or its picture coding extension, and a stream without,   *)
(* given in chunks                                                         *)
(***************************************************************************)
\* a GOP start code and a picture start code whose last byte begins the next
\* start code: the frame ends 7 bytes behind the beginning of its GOP header
StreamShortGop ==
    SeqA \o StartCode(MP2VGOP_START_CODE) \o StartCode(MP2VPIC_START_CODE) \o
    Tail(SeqA) \o Picture(0, MP2VPIC_TYPE_I) \o EndCode

\* a picture coding extension cut behind its first byte by a sequence header
StreamShortExtension ==
    SeqA \o PictureHeader(0, MP2VPIC_TYPE_I) \o
    StartCode(MP2VX_START_CODE) \o <<MP2VX_ID_PICX * 16>> \o
    SeqA \o Picture(0, MP2VPIC_TYPE_I) \o EndCode

ShortStreams == {StreamShortGop, StreamShortPicture, StreamShortExtension}

InitShort ==
    /\ InitPipe
    /\ es \in ShortStreams \cup {StreamSingle}
    /\ size \in 0..MaxChunk
    /\ cuts = 0
    /\ stamps = 0
    /\ ctl = 0

NextShort == InputMarkChunk

SpecShort == InitShort /\ [][NextShort]_vars

(***************************************************************************)
(* SpecDur: the upstream gives a sequence header, with a progressive or    *)
(* interlaced sequence extension or with none, and then pictures with any  *)
(* picture coding extension or with none                                   *)
(***************************************************************************)
\* pictures given behind the sequence header
MaxTimedPictures == 2

GiveDurSequence ==
    /\ es = <<>>
    /\ \E sequence \in {SeqA, SeqB}, ext \in {<<>>, SeqX, SeqXi} :
         GiveRap(sequence \o ext, FALSE)
    /\ UNCHANGED gop

\* a picture with a picture coding extension
GiveDurPictureExt ==
    /\ es # <<>>
    /\ ~Ended
    /\ Len(gop) < MaxTimedPictures
    /\ \E structure \in {MP2VPICX_TOP_FIELD, MP2VPICX_BOTTOM_FIELD,
                         MP2VPICX_FRAME_PICTURE},
          tff \in BOOLEAN, rff \in BOOLEAN :
         GiveRap(PictureHeader(Len(gop), MP2VPIC_TYPE_I) \o
                 PictureExtension(structure, tff, rff, TRUE) \o SliceData(1),
                 FALSE)
    /\ gop' = Append(gop, Len(gop))

\* a picture without
GiveDurPicture ==
    /\ es # <<>>
    /\ ~Ended
    /\ Len(gop) < MaxTimedPictures
    /\ GiveRap(Picture(Len(gop), MP2VPIC_TYPE_I), FALSE)
    /\ gop' = Append(gop, Len(gop))

NextDur ==
    GiveDurSequence \/ GiveDurPictureExt \/ GiveDurPicture \/ GiveRapEnd

SpecDur == InitRap /\ [][NextDur]_vars

(***************************************************************************)
(* SpecRate: the upstream gives one sequence header with any of a few      *)
(* bit_rate_value fields, alone or with a sequence extension with any      *)
(* bit_rate_extension up to MaxBitrateExt, and then pictures               *)
(***************************************************************************)
\* largest bit_rate_extension: 41 * 2^18 * 400 is the first to pass 2^32
MaxBitrateExt == 41

\* SeqX with the bit_rate_extension field set
SequenceExtensionRate(bitrate_ext) ==
    [SeqX EXCEPT ![7] = bitrate_ext \div 128,
                 ![8] = (bitrate_ext % 128) * 2 + 1]

GiveRateSequence ==
    /\ es = <<>>
    /\ \E bitrate \in {1, 37500, 262143} :
         \E ext \in {<<>>} \cup
                    {SequenceExtensionRate(x) : x \in 0..MaxBitrateExt} :
            GiveRap(SequenceHeader(720, 480, MP2VSEQ_ASPECT_4_3, 4,
                                   bitrate, 112) \o ext, FALSE)
    /\ UNCHANGED gop

NextRate == GiveRateSequence \/ GiveDurPicture \/ GiveRapEnd

SpecRate == InitRap /\ [][NextRate]_vars

(***************************************************************************)
(* SpecLoop: upipe_mpgvf_input taken one iteration of the loop of          *)
(* upipe_mpgvf_work at a time.  The upstream gives the next chunk when the *)
(* input has returned; a process stopped by a division by zero takes no    *)
(* further step.                                                           *)
(***************************************************************************)
\* the same unsupported sequence header twice, each with a picture
StreamInvalidTwice ==
    SequenceHeader(720, 480, MP2VSEQ_ASPECT_4_3, 15, 37500, 112) \o
    Picture(0, MP2VPIC_TYPE_I) \o
    SequenceHeader(720, 480, MP2VSEQ_ASPECT_4_3, 15, 37500, 112) \o
    Picture(0, MP2VPIC_TYPE_I) \o EndCode

LoopStreams == {StreamTwoGops, StreamShortExtension, StreamInvalidTwice}

\* upipe_mpgvf_input up to the call of upipe_mpgvf_work
InputLoop ==
    /\ ~upipe_mpgvf.working
    /\ ~upipe_mpgvf.trapped
    /\ Remaining > 0
    /\ \E n \in ChunkSizes :
         /\ upipe_mpgvf' =
                [upipe_mpgvf_append_uref_stream(upipe_mpgvf,
                                                InputUref(n, FALSE))
                    EXCEPT !.working = TRUE]
         /\ fed' = fed + n
         /\ fedlog' = Append(fedlog,
                [lo |-> fed, hi |-> fed + n, stamped |-> FALSE,
                 result |-> upipe_mpgvf_input(upipe_mpgvf,
                                              InputUref(n, FALSE))])
    /\ cuts' = cuts + 1
    /\ UNCHANGED <<es, size, stamps, ctl, ctl_mid, gop>>

\* one iteration of the loop of upipe_mpgvf_work
WorkLoop ==
    /\ upipe_mpgvf.working
    /\ ~upipe_mpgvf.trapped
    /\ upipe_mpgvf' = WorkIteration(upipe_mpgvf)
    /\ UNCHANGED <<es, fed, size, cuts, stamps, ctl, ctl_mid, fedlog, gop>>

InitLoop ==
    /\ upipe_mpgvf \in
         {[upipe_mpgvf_alloc EXCEPT !.sigfpe = b] : b \in BOOLEAN}
    /\ es \in LoopStreams
    /\ fed = 0
    /\ size \in 0..MaxChunk
    /\ cuts = 0
    /\ stamps = 0
    /\ ctl = 0
    /\ ctl_mid = FALSE
    /\ fedlog = <<>>
    /\ gop = <<>>

NextLoop == InputLoop \/ WorkLoop

SpecLoop == InitLoop /\ [][NextLoop]_vars

(***************************************************************************)
(* SpecStep: the loop of upipe_mpgvf_work taken one iteration at a time on *)
(* streams with every kind of start code: sequence, extension, GOP,        *)
(* picture, slice, user data, END, the reserved code 0xb9, data before the *)
(* first sequence header and frames with erroneous headers                 *)
(***************************************************************************)
\* a frame with an unsupported sequence header ended by an END code
StreamInvalidEnd ==
    SequenceHeader(720, 480, MP2VSEQ_ASPECT_4_3, 15, 37500, 112) \o
    Picture(0, MP2VPIC_TYPE_I) \o EndCode \o
    SeqA \o Picture(0, MP2VPIC_TYPE_I) \o EndCode

StepStreams ==
    { StreamTwoGops, StreamTwoSequences, StreamRepeatedSequence,
      StreamForeignCode, StreamShortExtension, StreamInvalidEnd }

InitStep ==
    /\ InitPipe
    /\ es \in StepStreams
    /\ size \in 0..MaxChunk
    /\ cuts = 0
    /\ stamps = 0
    /\ ctl = 0

NextStep == InputLoop \/ WorkLoop

SpecStep == InitStep /\ [][NextStep]_vars

(***************************************************************************)
(* SpecStamp: the loop of upipe_mpgvf_work taken one iteration at a time,  *)
(* on chunks some of which carry timestamps: a PTS, a DTS, or both.  The   *)
(* chunks have all the same size, or the stream comes in two chunks cut at *)
(* any place.                                                              *)
(***************************************************************************)
\* chunks that carry timestamps
MaxTimestamps == 2

DtsOrigOf(pos) == 4000 + pos
DtsOf(pos) == 5000 + pos
DtsSysOf(pos) == 6000 + pos

\* what a chunk carries: the three PTS, the DTS without its system time (as
\* before the clock is locked downstream of the demux), or all six
StampKinds == {"pts", "dts", "both"}

InputUrefStamp(n, kind) ==
    [InputUref(n, kind \in {"pts", "both"}) EXCEPT
        !.dts_orig = IF kind \in {"dts", "both"}
                     THEN DtsOrigOf(fed) ELSE UINT64_MAX,
        !.dts = IF kind \in {"dts", "both"} THEN DtsOf(fed) ELSE UINT64_MAX,
        !.dts_sys = IF kind = "both" THEN DtsSysOf(fed) ELSE UINT64_MAX]

\* pictures dropped before the first sequence header, with a GOP header
\* between them and the sequence header
StreamSkipped ==
    <<9, 9, 9>> \o Picture(1, MP2VPIC_TYPE_P) \o GopHeader(FALSE, FALSE) \o
    SeqA \o Picture(0, MP2VPIC_TYPE_I) \o Picture(1, MP2VPIC_TYPE_P) \o
    EndCode

StampStreams == {StreamSkipped, StreamTs}

StampSizes ==
    IF size > 0 THEN {Min(size, Remaining)}
    ELSE IF fed = 0 THEN 1..Remaining
    ELSE {Remaining}

\* upipe_mpgvf_input up to the call of upipe_mpgvf_work
InputStamp ==
    /\ ~upipe_mpgvf.working
    /\ Remaining > 0
    /\ \E n \in StampSizes :
       \E kind \in {"none"} \cup (IF stamps > 0 THEN StampKinds ELSE {}) :
         /\ upipe_mpgvf' =
                [upipe_mpgvf_append_uref_stream(upipe_mpgvf,
                                                InputUrefStamp(n, kind))
                    EXCEPT !.working = TRUE]
         /\ fed' = fed + n
         /\ stamps' = IF kind = "none" THEN stamps ELSE stamps - 1
         /\ fedlog' = Append(fedlog,
                [lo |-> fed, hi |-> fed + n, kind |-> kind])
    /\ UNCHANGED <<es, size, cuts, ctl, ctl_mid, gop>>

InitStamp ==
    /\ InitPipe
    /\ es \in StampStreams
    /\ size \in {0, MaxChunk, 2 * MaxChunk + 1}
    /\ cuts = 0
    /\ stamps = MaxTimestamps
    /\ ctl = 0

NextStamp == InputStamp \/ WorkLoop

SpecStamp == InitStamp /\ [][NextStamp]_vars

(***************************************************************************)
(* SpecCut: the loop of upipe_mpgvf_work taken one iteration at a time,    *)
(* some of the chunks flagged as discontinuities.  fedlog keeps, with each *)
(* chunk, what the pipe was like when it came.                             *)
(***************************************************************************)
\* upipe_mpgvf_input up to the call of upipe_mpgvf_work
InputCut ==
    /\ ~upipe_mpgvf.working
    /\ ~upipe_mpgvf.trapped
    /\ Remaining > 0
    /\ \E n \in ChunkSizes,
          discontinuity \in {FALSE} \cup
              {Cardinality(Discontinuities) < MaxDiscontinuities} :
         /\ upipe_mpgvf' =
                [upipe_mpgvf_append_uref_stream(
                     IF discontinuity THEN InputDiscontinuity(upipe_mpgvf)
                     ELSE upipe_mpgvf,
                     InputUrefDisc(n, discontinuity))
                    EXCEPT !.working = TRUE]
         /\ fed' = fed + n
         /\ fedlog' = Append(fedlog,
                [lo |-> fed, hi |-> fed + n, stamped |-> FALSE,
                 discontinuity |-> discontinuity,
                 slice |-> upipe_mpgvf.next_frame_slice,
                 acquired |-> upipe_mpgvf.acquired,
                 frames |-> Len(upipe_mpgvf.output),
                 events |-> Len(upipe_mpgvf.uprobe)])
    /\ cuts' = cuts + 1
    /\ UNCHANGED <<es, size, stamps, ctl, ctl_mid, gop>>

\* the chunks have all the same size
InitCut ==
    /\ InitPipe
    /\ es = StreamTwoGops
    /\ size \in 1..MaxChunk
    /\ cuts = 0
    /\ stamps = 0
    /\ ctl = 0

NextCut == InputCut \/ WorkLoop

SpecCut == InitCut /\ [][NextCut]_vars

(***************************************************************************)
(* SpecSize: the loop of upipe_mpgvf_work taken one iteration at a time on *)
(* streams with extensions, data before the first sequence header, the     *)
(* reserved code 0xb9 and a frame with erroneous headers, some of the      *)
(* chunks flagged as discontinuities                                       *)
(***************************************************************************)
SizeStreams == {StreamTwoGops, StreamShortExtension, StreamForeignCode}

\* the chunks have all the same size
InitSize ==
    /\ InitPipe
    /\ es \in SizeStreams
    /\ size \in 1..MaxChunk
    /\ cuts = 0
    /\ stamps = 0
    /\ ctl = 0

NextSize == InputCut \/ WorkLoop

SpecSize == InitSize /\ [][NextSize]_vars

(***************************************************************************)
(* SpecSync: the loop of upipe_mpgvf_work taken one iteration at a time on *)
(* streams that make the framer lose the synchronisation by an END code,   *)
(* the reserved code 0xb9 and a frame with erroneous headers, and some of  *)
(* the chunks, also two in a row, flagged as discontinuities               *)
(***************************************************************************)
\* chunks flagged as discontinuities
MaxLost == 2

SyncStreams == {StreamShortExtension, StreamForeignCode}

\* upipe_mpgvf_input up to the call of upipe_mpgvf_work
InputSync ==
    /\ ~upipe_mpgvf.working
    /\ ~upipe_mpgvf.trapped
    /\ Remaining > 0
    /\ \E n \in ChunkSizes,
          discontinuity \in {FALSE} \cup
              {Cardinality(Discontinuities) < MaxLost} :
         /\ upipe_mpgvf' =
                [upipe_mpgvf_append_uref_stream(
                     IF discontinuity THEN InputDiscontinuity(upipe_mpgvf)
                     ELSE upipe_mpgvf,
                     InputUrefDisc(n, discontinuity))
                    EXCEPT !.working = TRUE]
         /\ fed' = fed + n
         /\ fedlog' = Append(fedlog,
                [lo |-> fed, hi |-> fed + n, stamped |-> FALSE,
                 discontinuity |-> discontinuity,
                 slice |-> upipe_mpgvf.next_frame_slice,
                 acquired |-> upipe_mpgvf.acquired,
                 frames |-> Len(upipe_mpgvf.output),
                 events |-> Len(upipe_mpgvf.uprobe)])
    /\ cuts' = cuts + 1
    /\ UNCHANGED <<es, size, stamps, ctl, ctl_mid, gop>>

\* the chunks have all the same size
InitSync ==
    /\ InitPipe
    /\ es \in SyncStreams
    /\ size \in 2..MaxChunk
    /\ cuts = 0
    /\ stamps = 0
    /\ ctl = 0

NextSync == InputSync \/ WorkLoop

SpecSync == InitSync /\ [][NextSync]_vars

(***************************************************************************)
(* SpecGot: the upstream makes up the stream piece after piece: sequence   *)
(* headers, I pictures behind a GOP header closed or open, with or without *)
(* broken link, P pictures and END codes, each piece in one chunk, some of *)
(* the chunks flagged as discontinuities                                   *)
(***************************************************************************)
\* pieces given
MaxGotPieces == 4

GiveGot(piece) ==
    /\ ~upipe_mpgvf.trapped
    /\ Remaining = 0
    /\ Len(fedlog) < MaxGotPieces
    /\ \E discontinuity \in {FALSE} \cup
              {Cardinality(Discontinuities) < MaxDiscontinuities} :
         /\ upipe_mpgvf' =
                upipe_mpgvf_input(upipe_mpgvf,
                    [InputUref(0, FALSE) EXCEPT
                        !.ubuf = piece, !.discontinuity = discontinuity])
         /\ fedlog' = Append(fedlog,
                [lo |-> fed, hi |-> fed + Len(piece), stamped |-> FALSE,
                 discontinuity |-> discontinuity,
                 slice |-> upipe_mpgvf.next_frame_slice,
                 acquired |-> upipe_mpgvf.acquired,
                 frames |-> Len(upipe_mpgvf.output),
                 events |-> Len(upipe_mpgvf.uprobe)])
    /\ es' = es \o piece
    /\ fed' = fed + Len(piece)
    /\ UNCHANGED <<size, cuts, stamps, ctl, ctl_mid, gop>>

GiveGotSequence == GiveGot(SeqA)

GiveGotGop ==
    \E closedgop, brokenlink \in BOOLEAN :
        GiveGot(GopHeader(closedgop, brokenlink) \o
                Picture(0, MP2VPIC_TYPE_I))

GiveGotPicture == GiveGot(Picture(1, MP2VPIC_TYPE_P))

GiveGotEnd == GiveGot(EndCode)

NextGot == GiveGotSequence \/ GiveGotGop \/ GiveGotPicture \/ GiveGotEnd

SpecGot == InitRap /\ [][NextGot]_vars

(***************************************************************************)
(* SpecEnd: the upstream makes up the stream piece after piece: sequence   *)
(* headers, pictures with or without GOP header and END codes in any       *)
(* order, each piece in one chunk; the loop of upipe_mpgvf_work is taken   *)
(* one iteration at a time                                                 *)
(***************************************************************************)
\* pieces given
MaxEndPieces == 7

\* upipe_mpgvf_input up to the call of upipe_mpgvf_work
GiveEnd(piece) ==
    /\ ~upipe_mpgvf.working
    /\ ~upipe_mpgvf.trapped
    /\ Remaining = 0
    /\ Len(fedlog) < MaxEndPieces
    /\ upipe_mpgvf' =
           [upipe_mpgvf_append_uref_stream(upipe_mpgvf,
                [InputUref(0, FALSE) EXCEPT !.ubuf = piece])
               EXCEPT !.working = TRUE]
    /\ fedlog' = Append(fedlog,
           [lo |-> fed, hi |-> fed + Len(piece), stamped |-> FALSE])
    /\ es' = es \o piece
    /\ fed' = fed + Len(piece)
    /\ UNCHANGED <<size, cuts, stamps, ctl, ctl_mid, gop>>

GiveEndSequence == GiveEnd(SeqA)

GiveEndGop == GiveEnd(GopHeader(TRUE, FALSE) \o Picture(0, MP2VPIC_TYPE_I))

GiveEndPicture == GiveEnd(Picture(1, MP2VPIC_TYPE_P))

GiveEndCode == GiveEnd(EndCode)

NextEnd ==
    GiveEndSequence \/ GiveEndGop \/ GiveEndPicture \/ GiveEndCode \/ WorkLoop

SpecEnd == InitRap /\ [][NextEnd]_vars

(***************************************************************************)
(* What the properties read from the state                                 *)
(***************************************************************************)
\* the bytes of each frame given to the output, in order
FrameBytes(output) == [i \in 1..Len(output) |-> output[i].ubuf]

\* the whole stream in one buffer
WholeUref == [InputUref(0, FALSE) EXCEPT !.ubuf = es, !.pos = 0]

\* a pipe allocated with the given setting that gets the stream in one buffer
OneShot(insert) ==
    upipe_mpgvf_input(
        _upipe_mpgvf_set_sequence_insertion(upipe_mpgvf_alloc, insert),
        WholeUref)

\* the stream was cut inside a start code
CutInStartCode ==
    \E i \in 1..(Len(fedlog) - 1) : \E p \in AllStartCodes(es) :
        fedlog[i].hi \in (p + 1)..(p + 3)

AllFed == fed = Len(es)

(***************************************************************************)
(* C1: the frames given to the output do not depend on how the stream is   *)
(* cut into input buffers: once the whole stream is in, they are, byte for *)
(* byte, the frames of a pipe that got the stream in one buffer (with the  *)
(* sequence insertion setting unchanged since the first input).            *)
(***************************************************************************)
C1_BoundaryAgnostic ==
    (AllFed /\ ~ctl_mid) =>
        FrameBytes(upipe_mpgvf.output) =
            FrameBytes(OneShot(upipe_mpgvf.insert_sequence).output)

C1_Witness ==
    /\ AllFed /\ ~ctl_mid
    /\ CutInStartCode
    /\ Len(fedlog) > 2
    /\ Len(upipe_mpgvf.output) >= 2
    /\ upipe_mpgvf.insert_sequence

(***************************************************************************)
(* C2: every frame given to the output holds exactly one picture start     *)
(* code.                                                                   *)
(***************************************************************************)
C2_OnePictureStartCode ==
    \A i \in 1..Len(upipe_mpgvf.output) :
        Cardinality(StartCodesAt(upipe_mpgvf.output[i].ubuf,
                                 MP2VPIC_START_CODE)) = 1

C2_Witness ==
    /\ Len(upipe_mpgvf.output) >= 3
    /\ \E i \in 1..Len(upipe_mpgvf.output) :
         upipe_mpgvf.output[i].inserted > 0
    /\ CutInStartCode

\* the bytes of a frame that come from the input
OwnBytes(f) == SubSeq(f.ubuf, f.inserted + 1, Len(f.ubuf))

\* the bytes of the stream at the places a frame is made of
SegBytes(f) ==
    Concat([k \in 1..Len(f.segs) |->
              Slice(es, f.segs[k].lo, f.segs[k].hi - f.segs[k].lo)])

\* the input bytes of all the frames, in the order of the output
OutputOwnBytes ==
    Concat([i \in 1..Len(upipe_mpgvf.output) |->
              OwnBytes(upipe_mpgvf.output[i])])

RECURSIVE Without(_, _, _)
Without(bytes, i, dropped) ==
    IF i > Len(bytes) THEN <<>>
    ELSE (IF i \in dropped THEN <<>> ELSE <<bytes[i]>>) \o
         Without(bytes, i + 1, dropped)

\* the stream without the four bytes of each END code
WithoutEndCodes(bytes) ==
    Without(bytes, 1,
            UNION { (p + 1)..(p + 4) :
                      p \in StartCodesAt(bytes, MP2VEND_START_CODE) })

(***************************************************************************)
(* C3: for a stream made of complete sequences, each from its sequence     *)
(* header to its END code, the frames given to the output, without the     *)
(* sequence headers inserted in them, are together a prefix of the stream, *)
(* and the whole stream, END codes included, once it is all in.            *)
(***************************************************************************)
C3_RoundTrip ==
    es \in WellFormedStreams =>
        /\ OutputOwnBytes = SubSeq(es, 1, Len(OutputOwnBytes))
        /\ AllFed => OutputOwnBytes = es

\* C3 as claimed: the END codes are not in the frames
C3_AsClaimed ==
    (es \in WellFormedStreams /\ AllFed) =>
        OutputOwnBytes = WithoutEndCodes(es)

C3_Witness ==
    /\ es \in WellFormedStreams /\ AllFed
    /\ Cardinality(StartCodesAt(es, MP2VEND_START_CODE)) = 2
    /\ Len(fedlog) > 2
    /\ \E i \in 1..Len(upipe_mpgvf.output) :
         upipe_mpgvf.output[i].inserted > 0

\* the places of the stream the frames are made of, in the order of the output
OutputSegs ==
    Concat([i \in 1..Len(upipe_mpgvf.output) |-> upipe_mpgvf.output[i].segs])

(***************************************************************************)
(* C4: the frames are given to the output in the order of the input: the   *)
(* input bytes of the frames, taken frame after frame, are at increasing   *)
(* places of the stream, so that no input byte is in two frames.           *)
(***************************************************************************)
C4_InputOrder ==
    /\ \A k \in 1..Len(OutputSegs) :
         /\ OutputSegs[k].lo < OutputSegs[k].hi
         /\ k > 1 => OutputSegs[k - 1].hi <= OutputSegs[k].lo
    /\ \A i \in 1..Len(upipe_mpgvf.output) :
         OwnBytes(upipe_mpgvf.output[i]) = SegBytes(upipe_mpgvf.output[i])

C4_Witness ==
    /\ Len(upipe_mpgvf.output) >= 3
    /\ Len(upipe_mpgvf.output[1].segs) = 2
    /\ Len(upipe_mpgvf.output[3].segs) = 1
    /\ Len(fedlog) > 3

\* header, extension and display extension of a handled sequence
Triple(r) == <<r.header, r.ext, r.display>>

\* the handled sequences that are not, byte for byte, the one handled before
ChangedSequences ==
    { i \in 1..Len(upipe_mpgvf.sequences) :
        i = 1 \/ Triple(upipe_mpgvf.sequences[i]) #
                 Triple(upipe_mpgvf.sequences[i - 1]) }

(***************************************************************************)
(* C6: a flow definition is stored for a frame that begins with a sequence *)
(* header only when its header, extension and display extension are not,   *)
(* byte for byte, the cached ones (absent equal to absent): there are as   *)
(* many flow definitions as changes of the triple, and the same sequence   *)
(* header given twice in a row gives one flow definition.                  *)
(***************************************************************************)
C6_IdempotentSequenceCache ==
    /\ Len(upipe_mpgvf.flow_defs) = Cardinality(ChangedSequences)
    /\ \A i \in 1..Len(upipe_mpgvf.sequences) :
         upipe_mpgvf.sequences[i].parsed <=> i \in ChangedSequences
    /\ (es = StreamRepeatedSequence /\ AllFed) =>
         /\ Len(upipe_mpgvf.sequences) = 2
         /\ Len(upipe_mpgvf.flow_defs) = 1

C6_Witness ==
    /\ es = StreamRepeatedSequence /\ AllFed
    /\ Len(upipe_mpgvf.sequences) = 2
    /\ ~upipe_mpgvf.sequences[2].parsed
    /\ Len(upipe_mpgvf.output) = 2
    /\ Len(fedlog) > 2

\* place of the picture start code in the bytes of a frame
PictureAt(bytes) ==
    CHOOSE p \in StartCodesAt(bytes, MP2VPIC_START_CODE) : TRUE

\* temporal reference and coding type in the picture header of a frame
TrefIn(bytes) ==
    bytes[PictureAt(bytes) + 5] * 4 + bytes[PictureAt(bytes) + 6] \div 64

TypeIn(bytes) == (bytes[PictureAt(bytes) + 6] \div 8) % 8

FrameTref(f) == TrefIn(OwnBytes(f))

HasGop(f) == StartCodesAt(OwnBytes(f), MP2VGOP_START_CODE) # {}

BeginsWithSequence(f) == 0 \in StartCodesAt(OwnBytes(f), MP2VSEQ_START_CODE)

\* the stream begins with SEQ, SEQX and GOP
BeginsSeqSeqxGop ==
    /\ 0 \in StartCodesAt(es, MP2VSEQ_START_CODE)
    /\ MP2VSEQ_HEADER_SIZE \in StartCodesAt(es, MP2VX_START_CODE)
    /\ MP2VSEQ_HEADER_SIZE + MP2VSEQX_HEADER_SIZE
           \in StartCodesAt(es, MP2VGOP_START_CODE)

\* frame i is a picture of the first GOP
InFirstGop(i) ==
    \A j \in 2..i : /\ ~HasGop(upipe_mpgvf.output[j])
                    /\ ~BeginsWithSequence(upipe_mpgvf.output[j])

PictureNumbers ==
    [i \in 1..Len(upipe_mpgvf.output) |-> upipe_mpgvf.output[i].number]

(***************************************************************************)
(* C8: in a pipe just allocated that gets a stream beginning with SEQ,     *)
(* SEQX and GOP, each picture of the first GOP has its temporal reference  *)
(* plus one as picture number: temporal references 2, 5, 0, 1 give the     *)
(* picture numbers 3, 6, 1, 2 and a single I picture with temporal         *)
(* reference 0 gets the picture number 1.                                  *)
(***************************************************************************)
C8_FirstGopNumbers ==
    /\ BeginsSeqSeqxGop =>
         \A i \in 1..Len(upipe_mpgvf.output) :
           InFirstGop(i) =>
             upipe_mpgvf.output[i].number =
                 FrameTref(upipe_mpgvf.output[i]) + 1
    /\ (es = StreamReorder /\ AllFed) => PictureNumbers = <<3, 6, 1, 2>>
    /\ (es = StreamSingle /\ AllFed) => PictureNumbers = <<1>>

\* C8 as claimed: the picture number is the temporal reference
C8_AsClaimed ==
    /\ BeginsSeqSeqxGop =>
         \A i \in 1..Len(upipe_mpgvf.output) :
           InFirstGop(i) =>
             upipe_mpgvf.output[i].number = FrameTref(upipe_mpgvf.output[i])
    /\ (es = StreamReorder /\ AllFed) => PictureNumbers = <<2, 5, 0, 1>>
    /\ (es = StreamSingle /\ AllFed) => PictureNumbers = <<0>>

C8_Witness ==
    /\ es = StreamReorder /\ AllFed
    /\ Len(upipe_mpgvf.output) = 4
    /\ Len(fedlog) > 2
    /\ upipe_mpgvf.uprobe = <<"ready", "sync_acquired", "sync_lost">>

\* place of the last sequence header of the stream before pos
SequenceBefore(pos) ==
    LET before == { p \in StartCodesAt(es, MP2VSEQ_START_CODE) : p < pos }
    IN  CHOOSE p \in before : \A q \in before : q <= p

\* the extension with the given identifier that the stream has at pos
ExtensionAt(pos, id, length) ==
    IF pos \in StartCodesAt(es, MP2VX_START_CODE) /\ es[pos + 5] \div 16 = id
    THEN Slice(es, pos, length) ELSE <<>>

\* sequence header, extension and display extension as the stream has them
\* at the last sequence header before pos
SequenceOfStream(pos) ==
    LET p == SequenceBefore(pos)
        x == ExtensionAt(p + MP2VSEQ_HEADER_SIZE, MP2VX_ID_SEQX,
                         MP2VSEQX_HEADER_SIZE)
        d == IF x = <<>> THEN <<>>
             ELSE ExtensionAt(p + MP2VSEQ_HEADER_SIZE + MP2VSEQX_HEADER_SIZE,
                              MP2VX_ID_SEQDX, MP2VSEQDX_HEADER_SIZE)
    IN  Slice(es, p, MP2VSEQ_HEADER_SIZE) \o x \o d

\* the bytes of frame f, given when the sequence insertion was insert
FrameLayout(f, insert) ==
    LET input == SegBytes(f)
        prepend ==
            /\ insert
            /\ TypeIn(input) = MP2VPIC_TYPE_I
            /\ 0 \notin StartCodesAt(input, MP2VSEQ_START_CODE)
    IN  f.ubuf = IF prepend
                 THEN SequenceOfStream(f.segs[1].lo) \o input
                 ELSE input

(***************************************************************************)
(* C10: with sequence insertion on, the frame of an I picture that does    *)
(* not begin with a sequence header is given to the output as the cached   *)
(* sequence header, then the cached sequence extension, then the cached    *)
(* sequence display extension, then the bytes of the frame; in every other *)
(* case the frame is given with nothing before its bytes.                  *)
(***************************************************************************)
C10_InsertSequenceLayout ==
    [][\A i \in (Len(upipe_mpgvf.output) + 1)..Len(upipe_mpgvf'.output) :
         FrameLayout(upipe_mpgvf'.output[i], upipe_mpgvf.insert_sequence)]_vars

C10_Witness ==
    /\ upipe_mpgvf.insert_sequence /\ ~ctl_mid
    /\ \E i \in 1..Len(upipe_mpgvf.output) :
         /\ upipe_mpgvf.output[i].inserted =
                MP2VSEQ_HEADER_SIZE + MP2VSEQX_HEADER_SIZE +
                MP2VSEQDX_HEADER_SIZE
         /\ \E j \in 1..Len(upipe_mpgvf.output) :
              j > i /\ upipe_mpgvf.output[j].inserted = 0
    /\ Len(fedlog) > 2

\* places of the picture start codes of the stream
PictureStarts == StartCodesAt(es, MP2VPIC_START_CODE)

\* place of the picture start code before the one at p, or -1
PreviousPicture(p) ==
    IF \E q \in PictureStarts : q < p
    THEN CHOOSE q \in PictureStarts :
           q < p /\ \A r \in PictureStarts : r < p => r <= q
    ELSE -1

\* the frames given to the output that hold the input byte at place p
FramesAt(p) ==
    { i \in 1..Len(upipe_mpgvf.output) :
        \E k \in 1..Len(upipe_mpgvf.output[i].segs) :
            /\ upipe_mpgvf.output[i].segs[k].lo <= p
            /\ p < upipe_mpgvf.output[i].segs[k].hi }

StampedChunks == { c \in 1..Len(fedlog) : fedlog[c].stamped }

\* the chunks with a PTS that begin behind the first byte of the start code
\* of the picture before and not behind the first byte of the one at p
ChunksBoundTo(p) ==
    { c \in StampedChunks :
        PreviousPicture(p) < fedlog[c].lo /\ fedlog[c].lo <= p }

LastOf(chunks) == CHOOSE c \in chunks : \A d \in chunks : d <= c

CarriesPtsOf(f, pos) ==
    /\ f.pts_orig = PtsOrigOf(pos)
    /\ f.pts = PtsOf(pos)
    /\ f.pts_sys = PtsSysOf(pos)

CarriesNoPts(f) ==
    /\ f.pts_orig = UINT64_MAX
    /\ f.pts = UINT64_MAX
    /\ f.pts_sys = UINT64_MAX

(***************************************************************************)
(* C5: the frame of picture K carries the PTS of the last chunk with a PTS *)
(* that begins behind the first byte of the start code of picture K-1 and  *)
(* not behind the first byte of the start code of picture K, whether the   *)
(* frame has headers before the picture start code or not; it carries no  *)
(* PTS if there is no such chunk.  So the PTS of a chunk that begins at    *)
(* the second, third or fourth byte of the start code of picture K is      *)
(* carried by the frame of picture K+1.                                    *)
(***************************************************************************)
C5_PtsBinding ==
    \A p \in PictureStarts : \A i \in FramesAt(p) :
        IF ChunksBoundTo(p) = {}
        THEN CarriesNoPts(upipe_mpgvf.output[i])
        ELSE CarriesPtsOf(upipe_mpgvf.output[i],
                          fedlog[LastOf(ChunksBoundTo(p))].lo)

\* chunk c begins in or before the start code at p, behind the start code of
\* the picture before, and ends behind the start code at p
BeginsInOrBefore(c, p) ==
    /\ fedlog[c].lo <= p + 3
    /\ fedlog[c].hi > p + 4
    /\ PreviousPicture(p) = -1 \/ fedlog[c].lo > PreviousPicture(p) + 3

\* C5 as claimed: a chunk that begins at any byte of the start code of
\* picture K gives its PTS to the frame of picture K
C5_AsClaimed ==
    \A p \in PictureStarts : \A c \in StampedChunks :
        ( /\ BeginsInOrBefore(c, p)
          /\ \A d \in StampedChunks : BeginsInOrBefore(d, p) => d = c )
        => \A i \in FramesAt(p) :
             /\ CarriesPtsOf(upipe_mpgvf.output[i], fedlog[c].lo)
             /\ \A j \in 1..Len(upipe_mpgvf.output) :
                  j # i => upipe_mpgvf.output[j].pts # PtsOf(fedlog[c].lo)

\* a chunk with a PTS begins at the start code of a picture whose frame has
\* no headers before it, and one at the second byte of a start code
C5_Witness ==
    /\ AllFed
    /\ \E p \in PictureStarts : \E c \in StampedChunks : \E i \in FramesAt(p) :
         /\ fedlog[c].lo = p
         /\ fedlog[c].hi > p + 4
         /\ upipe_mpgvf.output[i].segs[1].lo = p
         /\ CarriesPtsOf(upipe_mpgvf.output[i], p)

C5_WitnessInside ==
    /\ AllFed
    /\ \E p \in PictureStarts : \E c \in StampedChunks :
         /\ fedlog[c].lo = p + 1
         /\ \E q \in PictureStarts : \E i \in FramesAt(q) :
              /\ PreviousPicture(q) = p
              /\ CarriesPtsOf(upipe_mpgvf.output[i], p + 1)

\* the frames from frame i on have the picture numbers of the law, worked
\* out from the temporal references and the GOP headers in their bytes, and
\* the pipe is left with the last picture the law keeps
RECURSIVE NumberLaw(_, _, _)
NumberLaw(i, last_picture_number, last_temporal_reference) ==
    IF i > Len(upipe_mpgvf.output)
    THEN /\ upipe_mpgvf.last_picture_number = last_picture_number
         /\ upipe_mpgvf.last_temporal_reference = last_temporal_reference
    ELSE LET f == upipe_mpgvf.output[i]
             reference == IF HasGop(f) THEN -1 ELSE last_temporal_reference
             number == last_picture_number + (FrameTref(f) - reference)
         IN  /\ f.number = number
             /\ IF FrameTref(f) > reference
                THEN NumberLaw(i + 1, number, FrameTref(f))
                ELSE NumberLaw(i + 1, last_picture_number, reference)

(***************************************************************************)
(* C7: every frame has the picture number last_picture_number +            *)
(* (temporal_reference - last_temporal_reference), worked out after a GOP  *)
(* header of the frame has set last_temporal_reference to -1; the two are  *)
(* then set to the picture number and the temporal reference of the frame  *)
(* only if its temporal reference is above last_temporal_reference.        *)
(***************************************************************************)
C7_PictureNumberLaw ==
    NumberLaw(1, upipe_mpgvf_alloc.last_picture_number,
              upipe_mpgvf_alloc.last_temporal_reference)

\* a second GOP, and a picture displayed before the one given before it
C7_Witness ==
    /\ Len(upipe_mpgvf.output) >= 4
    /\ \E i \in 2..Len(upipe_mpgvf.output) : HasGop(upipe_mpgvf.output[i])
    /\ \E i \in 2..Len(upipe_mpgvf.output) :
         /\ ~HasGop(upipe_mpgvf.output[i])
         /\ FrameTref(upipe_mpgvf.output[i]) <
                FrameTref(upipe_mpgvf.output[i - 1])

\* the frames of the GOP that begins with frame g
GopFrames(g) ==
    { i \in g..Len(upipe_mpgvf.output) :
        \A j \in (g + 1)..i : ~HasGop(upipe_mpgvf.output[j]) }

GopTrefs(g) == { FrameTref(upipe_mpgvf.output[i]) : i \in GopFrames(g) }

GopNumbers(g) == { upipe_mpgvf.output[i].number : i \in GopFrames(g) }

SetMin(S) == CHOOSE x \in S : \A y \in S : x <= y

SetMax(S) == CHOOSE x \in S : \A y \in S : y <= x

\* the temporal references of the GOP are a permutation of 0..N-1
IsPermutationGop(g) ==
    /\ HasGop(upipe_mpgvf.output[g])
    /\ GopTrefs(g) = 0..(Cardinality(GopFrames(g)) - 1)

(***************************************************************************)
(* C9: the picture numbers of a GOP of N pictures whose temporal           *)
(* references are a permutation of 0..N-1 are a permutation of             *)
(* base..base+N-1, base being the smallest of them, and the largest is     *)
(* base plus the largest temporal reference; the GOP that follows has      *)
(* picture numbers above them all.                                         *)
(***************************************************************************)
C9_MonotonicPictureNumbers ==
    \A g \in 1..Len(upipe_mpgvf.output) :
        IsPermutationGop(g) =>
            LET N == Cardinality(GopFrames(g))
                base == SetMin(GopNumbers(g))
                next == g + N
            IN  /\ GopNumbers(g) = base..(base + N - 1)
                /\ SetMax(GopNumbers(g)) = base + SetMax(GopTrefs(g))
                /\ (next <= Len(upipe_mpgvf.output) /\ IsPermutationGop(next))
                     => SetMin(GopNumbers(next)) > SetMax(GopNumbers(g))

\* two GOPs of two pictures in a row, given in another order than displayed
C9_Witness ==
    /\ Len(upipe_mpgvf.output) = 4
    /\ IsPermutationGop(1) /\ IsPermutationGop(3)
    /\ FrameTref(upipe_mpgvf.output[1]) = 1
    /\ FrameTref(upipe_mpgvf.output[3]) = 1

\* frame f, given when the sequence insertion was insert, is flagged random
\* exactly when it should
RandomRule(f, insert) ==
    f.random <=>
        /\ TypeIn(SegBytes(f)) = MP2VPIC_TYPE_I
        /\ \/ 0 \in StartCodesAt(SegBytes(f), MP2VSEQ_START_CODE)
           \/ insert

(***************************************************************************)
(* C11: a frame given to the output is flagged random if and only if its   *)
(* picture is an I picture and the frame begins with a sequence header or  *)
(* sequence insertion is on; never a P or B picture, and not an I picture  *)
(* without sequence header when sequence insertion is off.                 *)
(***************************************************************************)
C11_RandomOnEntryPoints ==
    [][\A i \in (Len(upipe_mpgvf.output) + 1)..Len(upipe_mpgvf'.output) :
         RandomRule(upipe_mpgvf'.output[i], upipe_mpgvf.insert_sequence)]_vars

C11_Witness ==
    /\ es = StreamTwoGops /\ AllFed
    /\ ~upipe_mpgvf.insert_sequence /\ ctl = MaxControls
    /\ Len(upipe_mpgvf.output) = 3
    /\ upipe_mpgvf.output[1].random
    /\ ~upipe_mpgvf.output[2].random
    /\ TypeIn(OwnBytes(upipe_mpgvf.output[2])) = MP2VPIC_TYPE_I
    /\ ~upipe_mpgvf.output[3].random

\* coding type of the picture of frame i
FrameType(i) == TypeIn(OwnBytes(upipe_mpgvf.output[i]))

\* frame i has a GOP header with closed_gop set
HasClosedGop(i) ==
    \E g \in StartCodesAt(OwnBytes(upipe_mpgvf.output[i]), MP2VGOP_START_CODE) :
        BitSet(OwnBytes(upipe_mpgvf.output[i])[g + 8], 64)

\* the chunk that holds the input byte at pos
ChunkOf(pos) ==
    CHOOSE c \in 1..Len(fedlog) : fedlog[c].lo <= pos /\ pos < fedlog[c].hi

\* the systime_rap of the chunk in which frame i begins
InRap(i) == fedlog[ChunkOf(upipe_mpgvf.output[i].segs[1].lo)].rap

\* the last I picture before frame i, 0 if there is none
LastIntra(i) ==
    SetMax({0} \cup { m \in 1..(i - 1) : FrameType(m) = MP2VPIC_TYPE_I })

\* the RAP recorded at the I picture of frame m
RapRecorded(m) == IF m = 0 THEN UINT64_MAX ELSE InRap(m)

\* the RAP a B picture refers to at frame i
RapReference(i) ==
    IF LastIntra(i) = 0 THEN UINT64_MAX
    ELSE IF \/ HasClosedGop(LastIntra(i))
            \/ \E j \in (LastIntra(i) + 1)..(i - 1) :
                   FrameType(j) = MP2VPIC_TYPE_P
    THEN RapRecorded(LastIntra(i))
    ELSE RapRecorded(LastIntra(LastIntra(i)))

\* the RAP the framer attaches to frame i
RapAttached(i) ==
    CASE FrameType(i) = MP2VPIC_TYPE_P -> RapRecorded(LastIntra(i))
      [] FrameType(i) = MP2VPIC_TYPE_B -> RapReference(i)
      [] OTHER -> UINT64_MAX

(***************************************************************************)
(* C12: a P picture is given to the output with the RAP recorded at the    *)
(* last I picture; a B picture with the RAP of the last I picture if the   *)
(* frame of that I picture had a closed GOP header or a P picture came     *)
(* since, else the RAP recorded before that I picture; a frame keeps the   *)
(* systime_rap it came with when the framer has none to attach.            *)
(***************************************************************************)
C12_RapPropagation ==
    \A i \in 1..Len(upipe_mpgvf.output) :
        upipe_mpgvf.output[i].systime_rap =
            IF RapAttached(i) # UINT64_MAX THEN RapAttached(i) ELSE InRap(i)

\* a B picture behind two I pictures with a RAP each, the second one with a
\* closed GOP header, and a B picture behind an I picture without
C12_Witness ==
    /\ Len(upipe_mpgvf.output) >= 4
    /\ \E i \in 3..Len(upipe_mpgvf.output) :
         /\ FrameType(i) = MP2VPIC_TYPE_B
         /\ FrameType(i - 1) = MP2VPIC_TYPE_I
         /\ HasClosedGop(i - 1)
         /\ LastIntra(i - 1) # 0
         /\ InRap(i - 1) # UINT64_MAX
         /\ InRap(LastIntra(i - 1)) # UINT64_MAX
         /\ InRap(i) # UINT64_MAX
         /\ upipe_mpgvf.output[i].systime_rap = InRap(i - 1)

\* the chunks flagged as discontinuities that came before a slice header of
\* the frame in construction
DroppingChunks == { c \in Discontinuities : ~fedlog[c].slice }

\* the events thrown since chunk c came
EventsSince(c) ==
    SubSeq(upipe_mpgvf.uprobe, fedlog[c].events + 1, Len(upipe_mpgvf.uprobe))

HasBrokenLink(i) ==
    \E g \in StartCodesAt(OwnBytes(upipe_mpgvf.output[i]), MP2VGOP_START_CODE) :
        BitSet(OwnBytes(upipe_mpgvf.output[i])[g + 8], 32)

\* frame i is the first B picture of the GOP whose header is in frame g
FirstBOfGop(i, g) ==
    /\ i \in GopFrames(g)
    /\ FrameType(i) = MP2VPIC_TYPE_B
    /\ \A j \in (g + 1)..(i - 1) : FrameType(j) # MP2VPIC_TYPE_B

(***************************************************************************)
(* C14: when a GOP header has a broken link, the frame that holds the GOP  *)
(* header, with the I picture behind it, is given to the output as a       *)
(* discontinuity; the B pictures of that GOP are not (the input has no     *)
(* discontinuity here).                                                    *)
(***************************************************************************)
C14_BrokenLink ==
    \A i \in 1..Len(upipe_mpgvf.output) :
        upipe_mpgvf.output[i].discontinuity <=> HasBrokenLink(i)

\* C14 as claimed: the first B picture of the GOP is the discontinuity
C14_AsClaimed ==
    \A g \in 1..Len(upipe_mpgvf.output) :
        (HasBrokenLink(g) /\ ~HasClosedGop(g)) =>
            \A i \in 1..Len(upipe_mpgvf.output) :
                FirstBOfGop(i, g) => upipe_mpgvf.output[i].discontinuity

C14_Witness ==
    \E g \in 1..Len(upipe_mpgvf.output) :
        /\ HasBrokenLink(g) /\ ~HasClosedGop(g)
        /\ upipe_mpgvf.output[g].discontinuity
        /\ \E i \in 1..Len(upipe_mpgvf.output) :
             FirstBOfGop(i, g) /\ i > g + 1

\* 27000000 * fps.den / fps.num for the frame rate codes of SeqA and SeqB
BaseDuration ==
    IF Slice(es, 0, MP2VSEQ_HEADER_SIZE) = SeqA THEN 900900 ELSE 1080000

\* progressive_sequence as the stream has it: set without sequence extension
ProgressiveSequence ==
    Slice(es, MP2VSEQ_HEADER_SIZE, MP2VSEQX_HEADER_SIZE) # SeqXi

\* the picture coding extension of frame i, <<>> if it has none
PicxOf(i) ==
    LET own == OwnBytes(upipe_mpgvf.output[i])
        pic == SetMax(StartCodesAt(own, MP2VPIC_START_CODE))
        at == {x \in StartCodesAt(own, MP2VX_START_CODE) : x > pic}
    IN  IF at = {} THEN <<>>
        ELSE Slice(own, SetMax(at), MP2VPICX_HEADER_SIZE)

IsFramePicture(x) == x[7] % 4 = MP2VPICX_FRAME_PICTURE
TopFieldFirst(x) == BitSet(x[8], 128)
RepeatFirstField(x) == BitSet(x[8], 2)

\* the duration of a picture with the picture coding extension x
DurationRule(x) ==
    IF ProgressiveSequence
    THEN IF RepeatFirstField(x)
         THEN BaseDuration * (1 + (IF TopFieldFirst(x) THEN 1 ELSE 0))
         ELSE BaseDuration
    ELSE IF IsFramePicture(x)
    THEN IF RepeatFirstField(x)
         THEN BaseDuration + BaseDuration \div 2 ELSE BaseDuration
    ELSE BaseDuration \div 2

\* the duration as claimed: half the base for every field picture
DurationRuleAsClaimed(x) ==
    IF ProgressiveSequence /\ RepeatFirstField(x)
    THEN BaseDuration * (1 + (IF TopFieldFirst(x) THEN 1 ELSE 0))
    ELSE IF IsFramePicture(x) /\ RepeatFirstField(x)
    THEN BaseDuration + BaseDuration \div 2
    ELSE IF ~IsFramePicture(x) THEN BaseDuration \div 2
    ELSE BaseDuration

MarkerGiven ==
    /\ Len(fedlog') = Len(fedlog) + 1
    /\ fedlog'[Len(fedlog')].lo = fedlog'[Len(fedlog')].hi

(***************************************************************************)
(* C16: a uref without ubuf given to the input is appended to the output   *)
(* as it is, in the very step, and every other field of the framer (the   *)
(* queue, next_frame_size, the scan context, the offsets, the pending      *)
(* timestamps, acquired, got_discontinuity, the events thrown) stays as it *)
(* was, with or without the discontinuity flag and whether or not a frame  *)
(* is under construction.                                                  *)
(***************************************************************************)
C16_MarkerPassthrough ==
    [][MarkerGiven =>
        upipe_mpgvf' =
            [upipe_mpgvf EXCEPT
                !.output = Append(@, fedlog'[Len(fedlog')].uref)]]_vars

\* a uref without ubuf and with the discontinuity flag was given while a
\* frame was under construction before its first slice, and went out first
C16_Witness ==
    /\ Markers # {}
    /\ upipe_mpgvf.acquired
    /\ upipe_mpgvf.urefs # <<>>
    /\ upipe_mpgvf.next_frame_size > 0
    /\ ~upipe_mpgvf.next_frame_slice
    /\ ~upipe_mpgvf.got_discontinuity
    /\ fedlog[Len(fedlog)].uref.discontinuity
    /\ fedlog[Len(fedlog)].lo = fedlog[Len(fedlog)].hi
    /\ upipe_mpgvf.output = <<fedlog[Len(fedlog)].uref>>

\* the bytes of the frame under construction
PendingBytes == Concat([i \in 1..Len(upipe_mpgvf.urefs) |->
                           upipe_mpgvf.urefs[i].ubuf])

\* the sequence header and extension the frame under construction begins with
PendingSequence == Slice(PendingBytes, 0, upipe_mpgvf.next_frame_offset)

\* a frame that begins with an unsupported sequence header is complete but
\* for the start code behind it
InvalidPending ==
    /\ upipe_mpgvf.acquired
    /\ upipe_mpgvf.next_frame_sequence
    /\ upipe_mpgvf.next_frame_slice
    /\ PendingSequence \in InvalidSequences

\* the sequence as it was kept from the frame before
StoredSequence ==
    upipe_mpgvf.sequence_header \o upipe_mpgvf.sequence_ext

\* the events thrown by the step
NewEvents ==
    SubSeq(upipe_mpgvf'.uprobe, Len(upipe_mpgvf.uprobe) + 1,
           Len(upipe_mpgvf'.uprobe))

\* the start code the step gives, which ends the frame under construction
GivenCode == es'[Len(es) + 4]

ShortEnd ==
    CASE es = StreamShortGop ->
            Len(SeqA) + 2 * Len(StartCode(MP2VGOP_START_CODE)) + 3
      [] es = StreamShortPicture ->
            Len(SeqA) + 2 * Len(StartCode(MP2VPIC_START_CODE))
      [] es = StreamShortExtension ->
            Len(SeqA) + Len(PictureHeader(0, MP2VPIC_TYPE_I)) + 5 + 4
      [] OTHER -> 0

Fatals == { i \in 1..Len(upipe_mpgvf.uprobe) : upipe_mpgvf.uprobe[i] = "fatal" }

DeclaredBitrate ==
    mp2vseq_get_bitrate(Slice(es, 0, MP2VSEQ_HEADER_SIZE)) +
    (IF Slice(es, MP2VSEQ_HEADER_SIZE, 4) = StartCode(MP2VX_START_CODE)
     THEN mp2vseqx_get_bitrate(
              Slice(es, MP2VSEQ_HEADER_SIZE, MP2VSEQX_HEADER_SIZE)) * 262144
     ELSE 0)

(***************************************************************************)
(* C19 as claimed: the octetrate of every flow definition is the declared  *)
(* bit rate * 400 / 8, which is the declared bit rate * 50, as if the      *)
(* multiplication by 400 never passed 32 bits.                             *)
(***************************************************************************)
C19_AsClaimed ==
    \A i \in 1..Len(upipe_mpgvf.flow_defs) :
        upipe_mpgvf.flow_defs[i].octetrate = DeclaredBitrate * 50

\* the bytes in the queue
QueueBytes(s) == uref_block_size(s.urefs)

\* an iteration that does not return removes bytes from the queue or moves
\* next_frame_size forward
IterationProgress ==
    (upipe_mpgvf.working /\ upipe_mpgvf'.working) =>
        \/ QueueBytes(upipe_mpgvf') < QueueBytes(upipe_mpgvf)
        \/ /\ QueueBytes(upipe_mpgvf') = QueueBytes(upipe_mpgvf)
           /\ upipe_mpgvf'.next_frame_size > upipe_mpgvf.next_frame_size

WorkProgress == [][IterationProgress]_vars

\* taken one iteration at a time, the loop leaves the pipe as
\* upipe_mpgvf_input does
WorkLoopAgrees ==
    (fedlog # <<>> /\ (~upipe_mpgvf.working \/ upipe_mpgvf.trapped)) =>
        [upipe_mpgvf EXCEPT !.working = FALSE] = fedlog[Len(fedlog)].result

(***************************************************************************)
(* C20 as claimed: upipe_mpgvf_input always returns: every iteration of    *)
(* the loop of upipe_mpgvf_work is completed, and it returns, removes      *)
(* bytes from the queue or moves next_frame_size forward over the bytes of *)
(* the queue, so that the loop is left after finitely many iterations.     *)
(***************************************************************************)
C20_AsClaimed ==
    [][/\ upipe_mpgvf.working => ~upipe_mpgvf'.trapped
       /\ IterationProgress]_vars

(***************************************************************************)
(* What the properties read from one iteration of the loop                 *)
(***************************************************************************)
\* the bytes of the queue of s
QueueOf(s) == Concat([i \in 1..Len(s.urefs) |-> s.urefs[i].ubuf])

\* the step is an iteration of the loop on a queue that is not empty
Iterates == upipe_mpgvf.working /\ upipe_mpgvf.urefs # <<>>

\* what upipe_mpgvf_find returns in this iteration
Found == upipe_mpgvf_find(upipe_mpgvf)

\* the iteration finds the start code c
Finds(c) == Iterates /\ Found.found /\ Found.start = c

\* the iteration gives a frame to the output
Emits == Iterates /\ Len(upipe_mpgvf'.output) = Len(upipe_mpgvf.output) + 1

\* the frame the iteration gives to the output
Emitted == upipe_mpgvf'.output[Len(upipe_mpgvf'.output)].ubuf

\* the fields of s that describe the frame in construction
BuildState(s) ==
    [ sequence |-> s.next_frame_sequence,
      sequence_ext |-> s.next_frame_sequence_ext_offset,
      sequence_display |-> s.next_frame_sequence_display_offset,
      gop |-> s.next_frame_gop_offset,
      picture |-> s.next_frame_offset,
      ext |-> s.next_frame_ext_offset,
      slice |-> s.next_frame_slice ]

NoBuildState ==
    [ sequence |-> FALSE, sequence_ext |-> -1, sequence_display |-> -1,
      gop |-> -1, picture |-> -1, ext |-> -1, slice |-> FALSE ]

(***************************************************************************)
(* C21: when a sequence, GOP or picture start code ends a frame, the frame *)
(* given to the output is the bytes of the queue before that start code;   *)
(* afterwards the queue begins with the 4 bytes of the start code,         *)
(* next_frame_size is 4 and of the fields of the frame in construction     *)
(* only the one of that start code is set (next_frame_sequence, or         *)
(* next_frame_gop_offset = 0, or next_frame_offset = 0).  When an END code *)
(* ends the frame, the frame is the bytes of the queue up to and including *)
(* the END code, and afterwards next_frame_size is 0.                      *)
(***************************************************************************)
C21_FrameBoundary ==
    [][Emits =>
        LET start == Found.start
            Q == QueueOf(upipe_mpgvf)
            n == Len(Emitted)
        IN  /\ start \in {MP2VSEQ_START_CODE, MP2VGOP_START_CODE,
                           MP2VPIC_START_CODE} =>
                /\ Q = Emitted \o QueueOf(upipe_mpgvf')
                /\ Slice(QueueOf(upipe_mpgvf'), 0, 4) = StartCode(start)
                /\ upipe_mpgvf'.next_frame_size = 4
                /\ BuildState(upipe_mpgvf') =
                      [NoBuildState EXCEPT
                         !.sequence = (start = MP2VSEQ_START_CODE),
                         !.gop = IF start = MP2VGOP_START_CODE THEN 0 ELSE -1,
                         !.picture =
                            IF start = MP2VPIC_START_CODE THEN 0 ELSE -1]
            /\ start = MP2VEND_START_CODE =>
                /\ Q = Emitted \o QueueOf(upipe_mpgvf')
                /\ Slice(Emitted, n - 4, 4) = EndCode
                /\ upipe_mpgvf'.next_frame_size = 0]_vars

\* the three frames of StreamTwoGops were ended by a GOP header, a picture
\* and the END code, which is in the last frame
C21_Witness ==
    /\ es = StreamTwoGops
    /\ AllFed
    /\ ~upipe_mpgvf.working
    /\ Len(upipe_mpgvf.output) = 3
    /\ upipe_mpgvf.output[3].ubuf = Picture(1, MP2VPIC_TYPE_P) \o EndCode
    /\ upipe_mpgvf.output[2].ubuf =
          GopHeader(FALSE, FALSE) \o Picture(0, MP2VPIC_TYPE_I)
    /\ upipe_mpgvf.next_frame_size = 0

\* the picture of the frame in construction has been found
Inside(s) == s.acquired /\ s.next_frame_offset # -1

\* the start codes the frame in construction goes on behind
Continues(start) ==
    \/ start = MP2VX_START_CODE
    \/ start = MP2VUSR_START_CODE
    \/ IsSliceHeader(start)

\* the start codes that begin a frame, and the END code
KnownCodes ==
    { MP2VSEQ_START_CODE, MP2VGOP_START_CODE, MP2VPIC_START_CODE,
      MP2VEND_START_CODE }

\* the iteration drops the frame in construction for its erroneous headers
Drops ==
    /\ Iterates
    /\ upipe_mpgvf'.output = upipe_mpgvf.output
    /\ ~upipe_mpgvf'.acquired
    /\ upipe_mpgvf'.next_frame_size = 0
    /\ upipe_mpgvf'.scan_context = UINT32_MAX

(***************************************************************************)
(* C22: once the picture of the frame in construction is found, extension, *)
(* user data and slice start codes never give a frame to the output and    *)
(* leave the framer acquired; every other start code ends the frame, which *)
(* is given to the output unless its headers are erroneous: the sequence,  *)
(* GOP, picture and END codes, and also the values that begin nothing      *)
(* (0xb0, 0xb1, 0xb4, 0xb6, 0xb9..0xff).  Behind a frame given to the      *)
(* output the framer stays acquired exactly for a sequence, GOP or picture *)
(* code.  No frame is given to the output in any other iteration.          *)
(***************************************************************************)
C22_Boundary ==
    [][Iterates =>
        LET start == Found.start
            inside == Found.found /\ Inside(upipe_mpgvf)
        IN  /\ Emits => inside /\ ~Continues(start)
            /\ inside /\ Continues(start) =>
                 /\ upipe_mpgvf'.output = upipe_mpgvf.output
                 /\ upipe_mpgvf'.acquired
            /\ inside /\ ~Continues(start) => Emits \/ Drops
            /\ inside /\ Emits =>
                 (upipe_mpgvf'.acquired <=>
                    start \in {MP2VSEQ_START_CODE, MP2VGOP_START_CODE,
                               MP2VPIC_START_CODE})]_vars

\* C22 as stated: only the sequence, GOP, picture and END codes end the
\* frame (given to the output, or dropped for its erroneous headers), and
\* the other values give no frame and leave the framer acquired
C22_AsClaimed ==
    [][Iterates /\ Found.found /\ Inside(upipe_mpgvf) =>
          /\ (Emits \/ Drops) <=> Found.start \in KnownCodes
          /\ Found.start \notin KnownCodes => upipe_mpgvf'.acquired]_vars

\* the code 0xb9 behind the first picture of StreamForeignCode ended the
\* frame: the frame is at the output, the framer is not acquired and the
\* code 0xb9 is at the head of the queue
C22_Witness ==
    /\ es = StreamForeignCode
    /\ Len(upipe_mpgvf.output) = 1
    /\ upipe_mpgvf.output[1].ubuf = SeqA \o Picture(0, MP2VPIC_TYPE_I)
    /\ ~upipe_mpgvf.acquired
    /\ upipe_mpgvf.next_frame_size = 4
    /\ Len(QueueOf(upipe_mpgvf)) >= 4
    /\ Slice(QueueOf(upipe_mpgvf), 0, 4) = StartCode(185)

\* the iteration begins while the framer is not acquired
Acquiring == Iterates /\ ~upipe_mpgvf.acquired

(***************************************************************************)
(* C23: an iteration that begins while the framer is not acquired gives no *)
(* frame to the output and records no header offset.  When it finds a      *)
(* start code, the bytes of the queue before the 4 bytes of the start code *)
(* are dropped, so that the queue begins with the start code, and          *)
(* next_frame_size becomes 4.  A sequence start code throws sync_acquired, *)
(* sets acquired and next_frame_sequence; behind any other start code the  *)
(* framer is still not acquired and no event is thrown.                    *)
(***************************************************************************)
C23_Acquiring ==
    [][Acquiring =>
        LET start == Found.start
            Q == QueueOf(upipe_mpgvf)
            R == QueueOf(upipe_mpgvf')
            seq == Found.found /\ start = MP2VSEQ_START_CODE
        IN  /\ upipe_mpgvf'.output = upipe_mpgvf.output
            /\ BuildState(upipe_mpgvf') =
                  [NoBuildState EXCEPT !.sequence = seq]
            /\ upipe_mpgvf'.acquired <=> seq
            /\ upipe_mpgvf'.uprobe =
                  IF seq THEN Append(upipe_mpgvf.uprobe, "sync_acquired")
                  ELSE upipe_mpgvf.uprobe
            /\ Found.found =>
                  /\ Len(R) >= 4
                  /\ Slice(R, 0, 4) = StartCode(start)
                  /\ R = Slice(Q, Len(Q) - Len(R), Len(R))
                  /\ upipe_mpgvf'.next_frame_size = 4
            /\ ~Found.found => R = Q]_vars

\* StreamForeignCode is fed and the framer acquired three times: at the
\* first sequence header, behind the byte and the picture header that were
\* dropped, and at the second one, behind the code 0xb9 and the picture
\* that were dropped
C23_Witness ==
    /\ es = StreamForeignCode
    /\ AllFed
    /\ ~upipe_mpgvf.working
    /\ upipe_mpgvf.uprobe =
          <<"ready", "sync_acquired", "sync_lost", "sync_acquired",
            "sync_lost">>
    /\ Len(upipe_mpgvf.output) = 2
    /\ upipe_mpgvf.output[2].ubuf =
          SeqA \o Picture(0, MP2VPIC_TYPE_I) \o EndCode

\* the six timestamps pending for the next frame
Pending(s) ==
    [ pts_orig |-> s.next_frame_pts_orig,
      pts |-> s.next_frame_pts,
      pts_sys |-> s.next_frame_pts_sys,
      dts_orig |-> s.next_frame_dts_orig,
      dts |-> s.next_frame_dts,
      dts_sys |-> s.next_frame_dts_sys ]

Channels == {"pts_orig", "pts", "pts_sys", "dts_orig", "dts", "dts_sys"}

NoTimestamps == [c \in Channels |-> UINT64_MAX]

\* the place in the queue of s of the first byte of its i-th uref
RECURSIVE OffsetOf(_, _)
OffsetOf(s, i) ==
    IF i = 1 THEN 0 ELSE OffsetOf(s, i - 1) + Len(s.urefs[i - 1].ubuf)

\* the urefs of s that take the head of the queue when the first consumed
\* bytes leave it and that carry the timestamp c
PromotedWith(s, consumed, c) ==
    { i \in 2..Len(s.urefs) :
        OffsetOf(s, i) <= consumed /\ s.urefs[i][c] # UINT64_MAX }

\* the timestamps of ts, each replaced by the one of the last uref that
\* carries it among those that take the head of the queue of s when the
\* first consumed bytes leave it
Latched(ts, s, consumed) ==
    [c \in Channels |->
        IF PromotedWith(s, consumed, c) = {} THEN ts[c]
        ELSE s.urefs[LastOf(PromotedWith(s, consumed, c))][c]]

\* the timestamps the frame f carries
Carried(f) ==
    [ pts_orig |-> f.pts_orig, pts |-> f.pts, pts_sys |-> f.pts_sys,
      dts_orig |-> f.dts_orig, dts |-> f.dts, dts_sys |-> f.dts_sys ]

\* the timestamps of the chunk the upstream gave at place lo, for its kind
GivenTs(lo, kind) ==
    [ pts_orig |-> IF kind \in {"pts", "both"} THEN PtsOrigOf(lo) ELSE -2,
      pts |-> IF kind \in {"pts", "both"} THEN PtsOf(lo) ELSE -2,
      pts_sys |-> IF kind \in {"pts", "both"} THEN PtsSysOf(lo) ELSE -2,
      dts_orig |-> IF kind \in {"dts", "both"} THEN DtsOrigOf(lo) ELSE -2,
      dts |-> IF kind \in {"dts", "both"} THEN DtsOf(lo) ELSE -2,
      dts_sys |-> IF kind = "both" THEN DtsSysOf(lo) ELSE -2 ]

\* the picture start codes of the stream that are in no frame of the output
SkippedPictures == { p \in PictureStarts : FramesAt(p) = {} }

\* no frame carries a timestamp of a chunk that begins at or before the
\* first byte of the start code of a picture dropped before that frame
SkippedNotAttached ==
    \A i \in 1..Len(upipe_mpgvf.output) :
    \A p \in SkippedPictures :
    \A k \in 1..Len(fedlog) :
        (p < upipe_mpgvf.output[i].segs[1].lo /\ fedlog[k].lo <= p) =>
            \A c \in Channels :
                Carried(upipe_mpgvf.output[i])[c] #
                    GivenTs(fedlog[k].lo, fedlog[k].kind)[c]

(***************************************************************************)
(* C24: while the framer is not acquired, the iteration that finds a       *)
(* picture start code leaves the six pending timestamps unset, those of a  *)
(* chunk that took the head of the queue in this iteration included; so no *)
(* frame carries a timestamp of a chunk that begins at or before the start *)
(* code of a picture dropped before it.  The iteration that finds another  *)
(* start code resets no pending timestamp: each keeps its value, or takes  *)
(* the one of the last chunk carrying it that took the head of the queue   *)
(* when the bytes before the start code were consumed.                     *)
(***************************************************************************)
C24_FlushSkipped ==
    /\ []SkippedNotAttached
    /\ [][Acquiring /\ Found.found =>
            Pending(upipe_mpgvf') =
               IF Found.start = MP2VPIC_START_CODE THEN NoTimestamps
               ELSE Latched(Pending(upipe_mpgvf), upipe_mpgvf,
                            Found.s.next_frame_size - 4)]_vars

\* C24 as stated: another start code leaves the pending timestamps as they
\* were
C24_AsClaimed ==
    [][Acquiring /\ Found.found /\ Found.start # MP2VPIC_START_CODE =>
          Pending(upipe_mpgvf') = Pending(upipe_mpgvf)]_vars

\* a chunk with the six timestamps begins in the bytes before the first
\* picture start code of StreamSkipped, behind the first chunk; the first
\* frame, of the picture behind the sequence header, carries no timestamp
C24_Witness ==
    /\ es = StreamSkipped
    /\ AllFed
    /\ Len(fedlog) >= 2
    /\ fedlog[2].kind = "both"
    /\ fedlog[2].lo <= 3
    /\ Len(upipe_mpgvf.output) >= 1
    /\ Carried(upipe_mpgvf.output[1]) = NoTimestamps

PtsChannels == {"pts_orig", "pts", "pts_sys"}

DtsChannels == {"dts_orig", "dts", "dts_sys"}

\* the uref the iteration gives to the output
EmittedFrame == upipe_mpgvf'.output[Len(upipe_mpgvf'.output)]

\* the size of the frame the iteration gives to the output
EmittedSize ==
    Found.s.next_frame_size -
        (IF Found.start # MP2VEND_START_CODE THEN 4 ELSE 0)

\* the urefs of s that carry the timestamp c and begin in the queue behind
\* the place from and not behind the place to
PromotedBetween(s, from, to, c) ==
    { i \in 2..Len(s.urefs) :
        /\ from < OffsetOf(s, i)
        /\ OffsetOf(s, i) <= to
        /\ s.urefs[i][c] # UINT64_MAX }

\* the timestamp c of the last uref that takes the head of the queue of
\* the iteration while the payload of the frame is extracted, if any
PayloadTs(c) ==
    LET promoted == PromotedBetween(upipe_mpgvf, upipe_mpgvf.next_frame_offset,
                                    EmittedSize, c)
    IN  IF promoted = {} THEN UINT64_MAX
        ELSE upipe_mpgvf.urefs[LastOf(promoted)][c]

\* no two frames carry the same PTS
PtsOnce ==
    \A i, j \in 1..Len(upipe_mpgvf.output) : \A c \in PtsChannels :
        (i # j /\ Carried(upipe_mpgvf.output[i])[c] # UINT64_MAX) =>
            Carried(upipe_mpgvf.output[i])[c] #
                Carried(upipe_mpgvf.output[j])[c]

(***************************************************************************)
(* C25: the frame given to the output carries the six timestamps pending   *)
(* once the bytes before its picture start code are taken out of the       *)
(* queue: those pending before, or those of the last chunk that took the   *)
(* head of the queue with these bytes; a channel that is unset then is     *)
(* absent from the frame.  The pending PTS are unset from then on: after   *)
(* the iteration they are those of the chunks that took the head of the    *)
(* queue while the payload was taken out, which the frame does not carry.  *)
(* So no two frames carry the same PTS.                                    *)
(***************************************************************************)
C25_Freeze ==
    /\ []PtsOnce
    /\ [][Emits =>
            /\ Carried(EmittedFrame) =
                  Latched(Pending(upipe_mpgvf), upipe_mpgvf,
                          upipe_mpgvf.next_frame_offset)
            /\ \A c \in PtsChannels :
                  Pending(upipe_mpgvf')[c] = PayloadTs(c)]_vars

\* a chunk with a PTS begins inside the payload of the first picture of
\* StreamTs: the first frame carries no PTS, the second one the PTS of the
\* chunk and the third one none
C25_Witness ==
    /\ es = StreamTs
    /\ AllFed
    /\ ~upipe_mpgvf.working
    /\ Len(upipe_mpgvf.output) = 3
    /\ \E k \in 1..Len(fedlog) :
         /\ fedlog[k].kind = "pts"
         /\ fedlog[k].lo > Len(SeqA)
         /\ fedlog[k].lo < Len(SeqA \o Picture(0, MP2VPIC_TYPE_I))
         /\ Carried(upipe_mpgvf.output[2]).pts = PtsOf(fedlog[k].lo)
    /\ Carried(upipe_mpgvf.output[1]) = NoTimestamps
    /\ Carried(upipe_mpgvf.output[3]) = NoTimestamps

(***************************************************************************)
(* C26: after a frame is given to the output, each pending DTS is the one  *)
(* of the last chunk carrying it that took the head of the queue while the *)
(* payload was taken out; without such a chunk it is the DTS of the frame  *)
(* plus the duration of the frame, and it is unset if the frame has no DTS *)
(* on this channel.  A pending PTS is never derived from the frame: it is  *)
(* unset or the PTS of such a chunk.                                       *)
(***************************************************************************)
C26_DtsExtrapolation ==
    [][Emits =>
        /\ \A c \in DtsChannels :
              Pending(upipe_mpgvf')[c] =
                 IF PayloadTs(c) # UINT64_MAX THEN PayloadTs(c)
                 ELSE IF Carried(EmittedFrame)[c] # UINT64_MAX
                 THEN Carried(EmittedFrame)[c] + EmittedFrame.duration
                 ELSE UINT64_MAX
        /\ \A c \in PtsChannels :
              \/ Pending(upipe_mpgvf')[c] = UINT64_MAX
              \/ \E i \in 2..Len(upipe_mpgvf.urefs) :
                    Pending(upipe_mpgvf')[c] = upipe_mpgvf.urefs[i][c]]_vars

\* the first chunk of StreamTs carries a DTS without its system time and a
\* later one the six timestamps: the second frame has the DTS of the first
\* plus its duration and no system time, the third one the DTS of the chunk
C26_Witness ==
    /\ es = StreamTs
    /\ AllFed
    /\ ~upipe_mpgvf.working
    /\ Len(upipe_mpgvf.output) = 3
    /\ fedlog[1].kind = "dts"
    /\ upipe_mpgvf.output[1].dts = DtsOf(0)
    /\ upipe_mpgvf.output[1].duration > 0
    /\ upipe_mpgvf.output[2].dts = DtsOf(0) + upipe_mpgvf.output[1].duration
    /\ upipe_mpgvf.output[2].dts_orig =
          DtsOrigOf(0) + upipe_mpgvf.output[1].duration
    /\ upipe_mpgvf.output[2].dts_sys = UINT64_MAX
    /\ \E k \in 2..Len(fedlog) :
         /\ fedlog[k].kind = "both"
         /\ upipe_mpgvf.output[3].dts = DtsOf(fedlog[k].lo)
         /\ upipe_mpgvf.output[3].dts_sys = DtsSysOf(fedlog[k].lo)

\* the iteration ends the frame in construction and upipe_mpgvf_output_frame
\* returns false
Fails ==
    /\ Iterates
    /\ Found.found
    /\ Inside(upipe_mpgvf)
    /\ ~Continues(Found.start)
    /\ ~Emits
    /\ ~upipe_mpgvf'.trapped

\* the framer as it is behind a frame with erroneous headers: nothing more
\* at the output, the bytes of the frame out of the queue, the scan begun
\* anew and the framer not acquired
Recovered ==
    LET Q == QueueOf(upipe_mpgvf)
    IN  /\ upipe_mpgvf'.output = upipe_mpgvf.output
        /\ QueueOf(upipe_mpgvf') =
              Slice(Q, EmittedSize, Len(Q) - EmittedSize)
        /\ upipe_mpgvf'.next_frame_size = 0
        /\ upipe_mpgvf'.scan_context = UINT32_MAX
        /\ ~upipe_mpgvf'.acquired
        /\ upipe_mpgvf'.uprobe # <<>>
        /\ upipe_mpgvf'.uprobe[Len(upipe_mpgvf'.uprobe)] = "sync_lost"
        /\ BuildState(upipe_mpgvf') = NoBuildState

\* the start code that ended the frame is at the head of the queue and is
\* the next one found
Rescanned ==
    /\ Len(QueueOf(upipe_mpgvf')) >= 4
    /\ Slice(QueueOf(upipe_mpgvf'), 0, 4) = StartCode(Found.start)
    /\ upipe_mpgvf_find(upipe_mpgvf').found
    /\ upipe_mpgvf_find(upipe_mpgvf').start = Found.start
    /\ upipe_mpgvf_find(upipe_mpgvf').s.next_frame_size = 4

(***************************************************************************)
(* C27: when the sequence or the picture of the frame that is ended cannot *)
(* be handled, no frame is given to the output, the bytes of the frame are *)
(* out of the queue, next_frame_size is 0, the scan context 0xffffffff,    *)
(* the framer not acquired with sync_lost thrown, and the fields of the    *)
(* frame in construction are reset.  The start code that ended the frame   *)
(* is then at the head of the queue and found again from offset 0, unless  *)
(* it is the END code, which left the queue with the frame.                *)
(***************************************************************************)
C27_Recovery ==
    [][Fails =>
        /\ Recovered
        /\ Found.start # MP2VEND_START_CODE => Rescanned
        /\ Found.start = MP2VEND_START_CODE =>
              LET n == Len(QueueOf(upipe_mpgvf)) -
                           Len(QueueOf(upipe_mpgvf'))
              IN  Slice(QueueOf(upipe_mpgvf), n - 4, 4) = EndCode]_vars

\* C27 as stated: the start code is in the queue whatever it is
C27_AsClaimed == [][Fails => Recovered /\ Rescanned]_vars

\* the frame of StreamShortExtension with the short picture extension was
\* dropped: the queue begins with the sequence header that ended it
C27_Witness ==
    /\ es = StreamShortExtension
    /\ upipe_mpgvf.output = <<>>
    /\ upipe_mpgvf.uprobe = <<"ready", "sync_acquired", "fatal", "sync_lost">>
    /\ upipe_mpgvf.next_frame_size = 0
    /\ upipe_mpgvf.scan_context = UINT32_MAX
    /\ ~upipe_mpgvf.acquired
    /\ Len(QueueOf(upipe_mpgvf)) >= 4
    /\ Slice(QueueOf(upipe_mpgvf), 0, 4) = StartCode(MP2VSEQ_START_CODE)

\* the chunks flagged as discontinuities that came behind a slice header of
\* the frame in construction
FlaggingChunks == { c \in Discontinuities : fedlog[c].slice }

\* the step is the input of a chunk flagged as a discontinuity behind a
\* slice header of the frame in construction
InputsBehindSlice ==
    /\ ~upipe_mpgvf.working
    /\ upipe_mpgvf'.working
    /\ fedlog'[Len(fedlog')].discontinuity
    /\ upipe_mpgvf.next_frame_slice

\* frame f is a frame of the pipe that gets the stream in one buffer
IsWholeFrame(f) ==
    \E j \in 1..Len(OneShot(FALSE).output) :
        /\ OneShot(FALSE).output[j].ubuf = f.ubuf
        /\ OneShot(FALSE).output[j].segs[1].lo = f.segs[1].lo

\* the place in the stream behind the last byte of frame f
FrameStop(f) == f.segs[Len(f.segs)].hi

\* the frame that was in construction when chunk c came is kept: until it
\* is given to the output its bytes are in the queue; it begins before the
\* chunk, is the frame this place of the stream gives without discontinuity
\* and goes on in the chunk, unless the chunk begins at or in the start
\* code that ends it
KeptFrame(c) ==
    IF Len(upipe_mpgvf.output) > fedlog[c].frames
    THEN LET f == upipe_mpgvf.output[fedlog[c].frames + 1]
         IN  /\ f.segs[1].lo < fedlog[c].lo
             /\ f.ubuf = Slice(es, f.segs[1].lo, Len(f.ubuf))
             /\ IsWholeFrame(f)
             /\ FrameStop(f) > fedlog[c].lo \/
                   fedlog[c].lo \in FrameStop(f)..(FrameStop(f) + 3)
    ELSE /\ upipe_mpgvf.urefs # <<>>
         /\ upipe_mpgvf.urefs[1].pos < fedlog[c].lo

(***************************************************************************)
(* C28: the input of a chunk flagged as a discontinuity, when a slice      *)
(* header of the frame in construction has been found, appends the chunk   *)
(* to the queue and sets the error flag of the first uref of the queue; it *)
(* changes nothing else: the bytes of the queue, next_frame_size, the scan *)
(* context, the offsets, acquired and got_discontinuity are as before.     *)
(* The frame in construction is given to the output when the start code    *)
(* that ends it is found, with its bytes from before the chunk and those   *)
(* in the chunk.                                                           *)
(***************************************************************************)
C28_DiscontinuityBehindSlice ==
    /\ [](\A c \in FlaggingChunks : KeptFrame(c))
    /\ [][InputsBehindSlice =>
            /\ upipe_mpgvf.urefs # <<>>
            /\ upipe_mpgvf' =
                  [upipe_mpgvf EXCEPT
                     !.urefs = Append([@ EXCEPT ![1].error = TRUE],
                                      InputUrefDisc(fed' - fed, TRUE)),
                     !.working = TRUE]
            /\ QueueOf(upipe_mpgvf') =
                  QueueOf(upipe_mpgvf) \o Slice(es, fed, fed' - fed)]_vars

\* a chunk flagged as a discontinuity came behind a slice header, and the
\* frame given to the output next holds bytes of the stream from before the
\* chunk and from the chunk
C28_Witness ==
    \E c \in FlaggingChunks :
        /\ fedlog[c].acquired
        /\ Len(upipe_mpgvf.output) > fedlog[c].frames
        /\ upipe_mpgvf.output[fedlog[c].frames + 1].segs[1].lo < fedlog[c].lo
        /\ FrameStop(upipe_mpgvf.output[fedlog[c].frames + 1]) >
              fedlog[c].lo + 1
        /\ upipe_mpgvf.output[fedlog[c].frames + 1].error

\* the uref frame i was made from, the first of the queue then, was given
\* by the upstream as a discontinuity
FromDiscontinuity(i) ==
    \E c \in Discontinuities :
        /\ fedlog[c].lo <= upipe_mpgvf.output[i].segs[1].lo
        /\ upipe_mpgvf.output[i].segs[1].lo < fedlog[c].hi

\* a discontinuity of the input dropped what was buffered before frame i
\* was given to the output
GotDiscontinuityBefore(i) == \E c \in DroppingChunks : fedlog[c].frames < i

EndsWithEnd(f) ==
    Len(f.ubuf) >= 4 /\ Slice(f.ubuf, Len(f.ubuf) - 4, 4) = EndCode

\* the stream has no sequence start code from the place from up to the
\* place to
NoSequenceBetween(from, to) ==
    \A q \in StartCodesAt(es, MP2VSEQ_START_CODE) : q < from \/ q > to

\* behind frame i, ended by an END code, no picture is in a frame unless a
\* sequence start code comes before it, and the next frame begins with a
\* sequence header
DroppedBehindEnd(i) ==
    LET f == upipe_mpgvf.output[i]
    IN  /\ \A p \in PictureStarts :
              (p >= FrameStop(f) /\ NoSequenceBetween(FrameStop(f), p)) =>
                  FramesAt(p) = {}
        /\ i < Len(upipe_mpgvf.output) =>
              /\ BeginsWithSequence(upipe_mpgvf.output[i + 1])
              /\ upipe_mpgvf.output[i + 1].segs[1].lo >= FrameStop(f)

(***************************************************************************)
(* C30: when an END code is found behind the picture of the frame in       *)
(* construction, the frame is given to the output with the END code as its *)
(* last bytes, sync_lost is thrown and the framer is not acquired any      *)
(* more.  No picture behind it is in a frame unless a sequence start code  *)
(* comes before it in the stream, and the next frame given to the output   *)
(* begins with a sequence header.                                          *)
(***************************************************************************)
C30_EndCode ==
    /\ [](\A i \in 1..Len(upipe_mpgvf.output) :
             EndsWithEnd(upipe_mpgvf.output[i]) => DroppedBehindEnd(i))
    /\ [][Finds(MP2VEND_START_CODE) /\ Inside(upipe_mpgvf) =>
            /\ Emits
            /\ EndsWithEnd(EmittedFrame)
            /\ ~upipe_mpgvf'.acquired
            /\ upipe_mpgvf'.uprobe =
                  Append(upipe_mpgvf.uprobe, "sync_lost")]_vars

\* a frame was ended by an END code, the pictures given behind it, with and
\* without GOP header, left the queue and are in no frame, and the frame
\* given to the output next begins with the sequence header that came
\* behind them
C30_Witness ==
    /\ Len(upipe_mpgvf.output) = 2
    /\ EndsWithEnd(upipe_mpgvf.output[1])
    /\ BeginsWithSequence(upipe_mpgvf.output[2])
    /\ \E p \in PictureStarts :
         /\ p > FrameStop(upipe_mpgvf.output[1])
         /\ p < upipe_mpgvf.output[2].segs[1].lo
         /\ FramesAt(p) = {}

(***************************************************************************)
(* What the properties read of the scan position                           *)
(***************************************************************************)
\* next_frame_size counts bytes of the queue of s
SizeInQueue(s) ==
    /\ 0 <= s.next_frame_size
    /\ s.next_frame_size <= Len(QueueOf(s))

\* the step is an input whose discontinuity drops what is buffered
DropsQueue ==
    /\ ~upipe_mpgvf.working
    /\ Len(fedlog') = Len(fedlog) + 1
    /\ fedlog'[Len(fedlog')].discontinuity
    /\ ~upipe_mpgvf.next_frame_slice

\* the chunk the step gives to the input
GivenChunk ==
    Slice(es, fedlog'[Len(fedlog')].lo,
          fedlog'[Len(fedlog')].hi - fedlog'[Len(fedlog')].lo)

\* the iteration finds an extension start code on the last byte of the queue
RollsBack ==
    /\ Iterates
    /\ ~Found.found
    /\ Found.start = MP2VX_START_CODE

\* s waits for the byte behind an extension start code at the end of its
\* queue
RolledBack(s) ==
    /\ ~s.working
    /\ Len(QueueOf(s)) >= 4
    /\ s.next_frame_size = Len(QueueOf(s)) - 4
    /\ Slice(QueueOf(s), s.next_frame_size, 4) = StartCode(MP2VX_START_CODE)
    /\ s.scan_context = UINT32_MAX

(***************************************************************************)
(* C31: next_frame_size is never more than the number of bytes of the      *)
(* queue.  Behind a frame given to the output it is 4, or 0 when an END    *)
(* code ended the frame; behind a frame with erroneous headers it is 0;    *)
(* when a discontinuity drops the queue it is 0 and the queue holds        *)
(* nothing but the chunk that came; when an extension start code ends on   *)
(* the last byte of the queue it is set back to the first byte of that     *)
(* start code.                                                             *)
(***************************************************************************)
C31_FrameSize ==
    /\ []SizeInQueue(upipe_mpgvf)
    /\ [][/\ Emits =>
              upipe_mpgvf'.next_frame_size =
                  IF Found.start = MP2VEND_START_CODE THEN 0 ELSE 4
          /\ Fails => upipe_mpgvf'.next_frame_size = 0
          /\ DropsQueue =>
              /\ upipe_mpgvf'.next_frame_size = 0
              /\ QueueOf(upipe_mpgvf') = GivenChunk
          /\ RollsBack =>
              /\ QueueOf(upipe_mpgvf') = QueueOf(upipe_mpgvf)
              /\ RolledBack(upipe_mpgvf')]_vars

\* behind a discontinuity that dropped the queue, a frame with erroneous
\* headers and a frame given to the output, the scan is set back from an
\* extension start code in the middle of the queue
C31_Witness ==
    /\ RolledBack(upipe_mpgvf)
    /\ upipe_mpgvf.next_frame_size > 0
    /\ Discontinuities # {}

(***************************************************************************)
(* What the properties read of the events of synchronisation               *)
(***************************************************************************)
IsSyncEvent(e) == e \in {"sync_acquired", "sync_lost"}

\* the events of synchronisation s has thrown, in order
SyncEvents(s) == SelectSeq(s.uprobe, IsSyncEvent)

\* sync_acquired and sync_lost in turn, sync_acquired first
Alternate(q) ==
    \A i \in 1..Len(q) :
        q[i] = IF i % 2 = 1 THEN "sync_acquired" ELSE "sync_lost"

\* the events thrown by the step
StepEvents ==
    SubSeq(upipe_mpgvf'.uprobe, Len(upipe_mpgvf.uprobe) + 1,
           Len(upipe_mpgvf'.uprobe))

CacheParsed(s) ==
    /\ s.sequence_header # NULL
    /\ upipe_mpgvf_parse_sequence(s).ok
    /\ s.flow_def # NULL
    /\ s.fps.num > 0

(***************************************************************************)
(* C33: every frame given to the output follows a successful parse of the  *)
(* sequence header and extensions the framer keeps, so that a flow         *)
(* definition is stored and fps.num is more than 0 when                    *)
(* 27000000 * fps.den / fps.num is computed: no iteration divides by zero, *)
(* also when a sequence header that was rejected is received again.        *)
(***************************************************************************)
C33_AsClaimed ==
    [][/\ ~upipe_mpgvf'.trapped
       /\ Emits => CacheParsed(upipe_mpgvf')]_vars

(***************************************************************************)
(* What the properties read of the extension start codes                   *)
(***************************************************************************)
\* the place in the input of the first byte of the queue of s
QueueStart(s) == IF s.urefs = <<>> THEN fed ELSE Head(s.urefs).pos

\* the place in the input up to which s has scanned
ScanPlace(s) == QueueStart(s) + s.next_frame_size

\* the places of the extension start codes s has scanned and handled
ExtensionsBehind(s) ==
    { p \in StartCodesAt(es, MP2VX_START_CODE) : p + 4 <= ScanPlace(s) }

\* the place in the input of the start code the iteration finds
FoundPlace == QueueStart(upipe_mpgvf) + Found.s.next_frame_size - 4

\* the byte of the input behind the start code the iteration finds
Selector == es[FoundPlace + 5]

\* the step is an input
Gives == ~upipe_mpgvf.working /\ upipe_mpgvf'.working

\* the fields of the frame in construction as the extension start code the
\* iteration finds changes them, judged by the byte behind it in the input
Classified ==
    LET b == BuildState(upipe_mpgvf)
        at == Found.s.next_frame_size - 4
        id == mp2vxst_get_id(Selector)
    IN  IF ~upipe_mpgvf.acquired THEN b
        ELSE IF upipe_mpgvf.next_frame_offset = -1
        THEN IF id = MP2VX_ID_SEQX THEN [b EXCEPT !.sequence_ext = at]
             ELSE IF id = MP2VX_ID_SEQDX
             THEN [b EXCEPT !.sequence_display = at]
             ELSE b
        ELSE IF id = MP2VX_ID_PICX THEN [b EXCEPT !.ext = at] ELSE b

(***************************************************************************)
(* C34: when an extension start code ends on the last byte of the queue,   *)
(* the iteration finds no start code and changes nothing but               *)
(* next_frame_size, set back to the first byte of that start code, and the *)
(* scan context, set to 0xffffffff; the loop returns and nothing happens   *)
(* until the next input.  With that input the same start code is found at  *)
(* the same place, with the first byte of the new chunk as the byte behind *)
(* it.  Every extension start code is handled in one iteration only, by    *)
(* the byte that follows it in the input.                                  *)
(***************************************************************************)
C34_ExtensionRollback ==
    [][/\ RollsBack =>
            /\ upipe_mpgvf' =
                 [upipe_mpgvf EXCEPT
                    !.working = FALSE,
                    !.scan_context = UINT32_MAX,
                    !.next_frame_size = Len(QueueOf(upipe_mpgvf)) - 4]
            /\ RolledBack(upipe_mpgvf')
       /\ (Gives /\ RolledBack(upipe_mpgvf)) =>
            /\ BuildState(upipe_mpgvf') = BuildState(upipe_mpgvf)
            /\ upipe_mpgvf'.next_frame_size = upipe_mpgvf.next_frame_size
            /\ upipe_mpgvf'.scan_context = UINT32_MAX
            /\ upipe_mpgvf'.acquired = upipe_mpgvf.acquired
            /\ upipe_mpgvf_find(upipe_mpgvf').found
            /\ upipe_mpgvf_find(upipe_mpgvf').start = MP2VX_START_CODE
            /\ upipe_mpgvf_find(upipe_mpgvf').s.next_frame_size =
                  upipe_mpgvf.next_frame_size + 4
            /\ upipe_mpgvf_find(upipe_mpgvf').next = es[fed + 1]
       /\ Finds(MP2VX_START_CODE) =>
            /\ FoundPlace \notin ExtensionsBehind(upipe_mpgvf)
            /\ Found.next = Selector
            /\ BuildState(upipe_mpgvf') = Classified
       /\ ExtensionsBehind(upipe_mpgvf') =
            ExtensionsBehind(upipe_mpgvf) \cup
              (IF Finds(MP2VX_START_CODE) THEN {FoundPlace} ELSE {})]_vars

\* a sequence extension whose start code ended a chunk has been recorded,
\* and the scan is behind its start code
C34_Witness ==
    /\ upipe_mpgvf.urefs # <<>>
    /\ upipe_mpgvf.next_frame_sequence_ext_offset # -1
    /\ \E c \in 1..Len(fedlog) :
          /\ fedlog[c].hi = QueueStart(upipe_mpgvf) +
                              upipe_mpgvf.next_frame_sequence_ext_offset + 4
          /\ fedlog[c].hi - 4 \in ExtensionsBehind(upipe_mpgvf)

=============================================================================
